---- MODULE Spec2Model ----
(***************************************************************************)
(* The Imports Manager of the language server                              *)
(* (robotframework/diagnostics/imports_manager.py): the three registries   *)
(* of import Entries, the request path of the facade, the file-event       *)
(* dispatcher, the reclamation hooks of the sentinels and the debounce of  *)
(* open-document edits, as one state machine.                              *)
(*                                                                         *)
(* Threads take one step at a time; a step is a maximal piece of code that *)
(* runs without acquiring a lock and without waiting for a subprocess.     *)
(* Locks are the RLocks of the code: a registry lock per kind and one lock *)
(* per Entry.                                                              *)
(***************************************************************************)
EXTENDS Integers, Sequences, FiniteSets, TLC

(* ------------------------------ bounds -------------------------------- *)

MaxBuilds   == 2   \* docs produced (introspections and resource namespaces)
MaxEntries  == 4   \* Entry objects ever constructed
MaxRequests == 1   \* facade requests made by one requester thread
MaxBatches  == 1   \* file-event batches dispatched
MaxFsOps    == 1   \* modifications and deletions of source files
MaxChanges  == 3   \* did_change notifications of open documents
MaxTime     == 2   \* seconds the clock runs
MaxCacheBuilds == 3   \* builds of the two Entries that share artifact files
MaxCacheTouch  == 1   \* modifications of their library file
DirLen      == 3   \* letters of a directory name
MaxWatcherEntries == 3 \* FileWatcherEntry objects ever created
MaxFindCalls == 3      \* calls of find_variables
MaxConfigChanges == 1  \* changes of the project configuration

(* --------------------------- program constants ------------------------ *)

\* _resource_document_changed_timer_interval, in seconds
TimerInterval == 1

Kinds   == {"Library", "Resource", "Variables"}
KindSeq == <<"Library", "Resource", "Variables">>

LibPath == "/d/Lib.py"
ResPath == "/d/a.resource"
VarPath == "/d/vars.py"
OutPath == "/x/y.py"
OtherDoc == "/d/b.resource"
Paths   == {LibPath, ResPath, VarPath, OutPath}

Parent(p) == IF p = OutPath THEN "/x" ELSE "/d"

\* path_is_relative_to(path, dir)
PathUnder(p, dir) == Parent(p) = dir

Source(k) == CASE k = "Library"   -> LibPath
               [] k = "Resource"  -> ResPath
               [] k = "Variables" -> VarPath

\* _LibrariesEntryKey / _ResourcesEntryKey / _VariablesEntryKey
EntryKey(k) == [name |-> Source(k), args |-> <<>>]

\* no path: a cleared memo, or a resolution that raised
NoPath == ""

\* letters of file suffixes, upper case and lower case
UpperLetters == <<"B", "J", "N", "O", "P", "R", "S", "T", "X", "Y">>
LowerLetters == <<"b", "j", "n", "o", "p", "r", "s", "t", "x", "y">>

\* str.lower() of one character
LowerChar(c) ==
  IF \E i \in 1..Len(UpperLetters) : UpperLetters[i] = c
  THEN LowerLetters[CHOOSE i \in 1..Len(UpperLetters) : UpperLetters[i] = c]
  ELSE c

\* str.lower()
Lower(w) == [i \in 1..Len(w) |-> LowerChar(w[i])]

\* RESOURCE_EXTENSIONS of the robot version, here the ones spelled with the
\* letters above
RESOURCE_EXTENSIONS(v61) ==
  {<<".", "r", "o", "b", "o", "t">>, <<".", "t", "x", "t">>, <<".", "r", "s", "t">>}
    \cup (IF v61 THEN {<<".", "j", "s", "o", "n">>} ELSE {})

\* the suffix of the resource file: Path(source).resolve().suffix
Suffixes ==
  {<<".", "r", "o", "b", "o", "t">>, <<".", "R", "O", "B", "O", "T">>,
   <<".", "T", "x", "t">>, <<".", "j", "s", "o", "n">>, <<".", "J", "S", "O", "N">>,
   <<".", "p", "y">>, <<".", "P", "Y">>, <<>>}

\* the resource file of the scenarios that do not vary it
PlainResFile == [suffix |-> <<".", "r", "o", "b", "o", "t">>, v61 |-> TRUE]

Requesters == {"r1", "r2"}
Dispatcher == "d"
Sentinels  == {"s1", "s2"}
NoSentinel == "None"
Free       == "free"

FileChangeTypes == {"Changed", "Deleted"}

\* FileEvent: uri (scheme and path), type
FileEvents == [scheme : {"file", "untitled"}, path : Paths, type : FileChangeTypes]

NoEntry == [kind |-> "none", key |-> EntryKey("Library"), lib_doc |-> 0,
            document |-> FALSE, file_watchers |-> <<>>, references |-> {},
            hooks |-> <<>>, ignore_reference |-> FALSE, lock |-> Free]

NoMeta == [origin |-> "", mtime |-> -1]

VARIABLES
  scn,       \* which threads and kinds take part (fixed by Init)
  reg,       \* reg[k]: the OrderedDict of kind k, a sequence of [key, e]
  regLock,   \* regLock[k]: owner of the registry lock of kind k
  ent,       \* ent[e]: the Entry object number e
  nEnt,      \* Entry objects constructed so far
  rq,        \* rq[t]: position and locals of requester thread t
  dsp,       \* position and locals of the dispatcher thread
  live,      \* sentinels not yet reclaimed
  mtime,     \* mtime[p]: st_mtime_ns of source file p
  present,   \* source files that exist
  disk,      \* disk[k]: the meta.json / spec.json pair of kind k's source
  nBuild,    \* docs produced so far; a doc is its number, 0 is None
  nBatch,    \* batches dispatched so far
  events,    \* *_changed events emitted, in order
  opened,    \* resource documents open in the editor (_version is not None)
  deb,       \* the debounce of open-document edits: clock, timers, pending set
  cache,     \* the artifact files of one library and the builds that use them
  fpb,      \* two Metas and their filepath_base
  files_cache, \* files_cache[k]: the memoized path resolution of kind k
  resfile,   \* the resource file's suffix and the robot version (fixed by Init)
  ws,        \* the workspace's file watcher entries and event listeners
  fv,        \* the memo of find_variables and the calls made
  clv,       \* the command-line variables, their locks and the threads that read them
  gh         \* history variables used by the properties

vars == <<scn, reg, regLock, ent, nEnt, rq, dsp, live, mtime, present, disk,
          nBuild, nBatch, events, opened, cache, fpb, files_cache, resfile, ws, fv, clv, deb, gh>>

\* the state of the registries, requests, dispatcher and debounce
coreVars == <<scn, reg, regLock, ent, nEnt, rq, dsp, live, mtime, present, disk,
             nBuild, nBatch, events, opened, deb, gh, files_cache, resfile>>

\* all of the manager's state but the artifact files
managerVars == <<coreVars, ws, fv, clv>>

(* ------------------------------ helpers ------------------------------- *)

Keys(k)  == {EntryKey(k)}
KeySpace == {<<k, EntryKey(k)>> : k \in Kinds}

EntryIds == 1..MaxEntries

RECURSIVE RegIndexFrom(_, _, _)
RegIndexFrom(items, key, i) ==
  IF i > Len(items) THEN 0
  ELSE IF items[i].key = key THEN i ELSE RegIndexFrom(items, key, i + 1)

\* position of key in the OrderedDict of kind k, 0 when absent
RegIndex(k, key) == RegIndexFrom(reg[k], key, 1)

\* self._libaries.get(key, None); 0 is None
RegGet(k, key) == IF RegIndex(k, key) = 0 THEN 0 ELSE reg[k][RegIndex(k, key)].e

RECURSIVE SeqWithout(_, _)
SeqWithout(items, key) ==
  IF items = <<>> THEN <<>>
  ELSE IF Head(items).key = key THEN SeqWithout(Tail(items), key)
       ELSE <<Head(items)>> \o SeqWithout(Tail(items), key)

InRegistry(e) == \E k \in Kinds : \E i \in 1..Len(reg[k]) : reg[k][i].e = e

Allocated(e) == ent[e].kind # "none"

\* Entry.is_valid()
IsValid(x) == IF x.kind = "Resource" THEN x.document ELSE x.lib_doc # 0

\* which requesters and kinds take part in a scenario
Active(t)  == scn \in {"Library", "Resource"} \/ t = "r1"
ReqKinds   == IF scn = "All" THEN Kinds
              ELSE IF scn = "Debounce" THEN {"Resource"} ELSE {scn}
SentinelOf(t) == IF t = "r1" THEN "s1" ELSE "s2"

\* LibraryMetaData as computed by get_library_meta / get_variables_meta for a
\* path import: None when the file does not exist, else origin and mtimes
Fingerprint(key) ==
  IF key.name \in present THEN [origin |-> key.name, mtime |-> mtime[key.name]]
  ELSE NoMeta

\* _find_library / __find_resource / _find_variables of a path import:
\* find_file_ex returns the path of an existing file and raises otherwise
Resolve(k) == IF Source(k) \in present THEN Source(k) ELSE NoPath

\* self._..._files_cache.get(self._find_..., name, base_dir, variables): the
\* memoized path, else the path computed now
Find(k) == IF files_cache[k] # NoPath THEN files_cache[k] ELSE Resolve(k)

\* the cache after that call: a computed path is memoized, an exception is not
Memoized(fc, k) == [fc EXCEPT ![k] = Find(k)]

\* a removal that leaves the path-resolution cache as it is
FilesCacheClear_Keeps(fc, K) == fc

\* finally: self._..._files_cache.clear(), for the kinds K whose removal
\* function ran
FilesCacheClear(fc, K) == [k \in Kinds |-> IF k \in K THEN NoPath ELSE fc[k]]

\* extension.lower() not in RESOURCE_EXTENSIONS with a comparison that
\* keeps the case
ExtensionAllowed_CaseSensitive(f) == f.suffix \in RESOURCE_EXTENSIONS(f.v61)

\* _get_document: extension.lower() in RESOURCE_EXTENSIONS
ExtensionAllowed(f) == Lower(f.suffix) \in RESOURCE_EXTENSIONS(f.v61)

\* the glob an Entry subscribes to in _update
WatchGlob(k, key) == IF k = "Library" THEN Parent(key.name) \o "/**" ELSE key.name

IdleRq == [pc |-> "idle", n |-> 0, kind |-> "Library", key |-> EntryKey("Library"),
           sent |-> NoSentinel, e |-> 0, meta |-> NoMeta, dmeta |-> NoMeta,
           cand |-> 0, worker |-> "none", doc |-> 0, how |-> "none", err |-> "none",
           expect |-> 0, clean |-> FALSE, mustBuild |-> FALSE, early |-> FALSE,
           waited |-> "none", found |-> "none"]


\* an insert that never finds the key present
Absent_Always(k, key) == TRUE

\* entry_key not in self._libaries
Absent(k, key) == RegIndex(k, key) = 0

\* self._libaries[entry_key] = entry: a new key goes to the end of the
\* OrderedDict, a present key keeps its place and gets the new value
RegPut(items, key, e) ==
  IF RegIndexFrom(items, key, 1) = 0 THEN Append(items, [key |-> key, e |-> e])
  ELSE [items EXCEPT ![RegIndexFrom(items, key, 1)] = [key |-> key, e |-> e]]

\* _LibrariesEntry(..., ignore_reference=sentinel is None) / _ResourcesEntry /
\* _VariablesEntry as constructed by the facade
NewEntry(k, key, s) ==
  [NoEntry EXCEPT !.kind = k, !.key = key,
                  !.ignore_reference = (k = "Library" /\ s = NoSentinel)]

\* a guard that does not test whether the sentinel is already recorded
NeedsRef_NoMembershipTest(x, s) == ~x.ignore_reference /\ s # NoSentinel

\* the guard of references.add / weakref.finalize in the facade
NeedsRef(x, s) == ~x.ignore_reference /\ s # NoSentinel /\ s \notin x.references

\* a change the watched roots of an Entry of kind k with this source cover
ChangeMatches(k, source, c) ==
  /\ c.scheme = "file"
  /\ CASE k = "Library"   -> PathUnder(c.path, Parent(source))
       [] k = "Resource"  -> c.path = source
       [] k = "Variables" -> c.path \in present /\ c.path = source

KeyMatches(K, changes) ==
  \E i \in 1..Len(changes) : ChangeMatches(K[1], K[2].name, changes[i])

\* the locals of a request that has returned: its answer only
Returned(r, doc, how, err) ==
  [r EXCEPT !.pc = "done", !.doc = doc, !.how = how, !.err = err, !.sent = NoSentinel,
            !.e = 0, !.meta = NoMeta, !.dmeta = NoMeta, !.cand = 0, !.worker = "none"]

\* history: a file event or an invalidation touches the keys of S; requests
\* in flight and earlier answers no longer count as undisturbed
TaintRq(r, S) ==
  [t \in Requesters |->
     IF <<r[t].kind, r[t].key>> \in S
     THEN [r[t] EXCEPT !.expect = 0, !.clean = FALSE] ELSE r[t]]

TaintGh(g, S) ==
  [g EXCEPT !.ret = [K \in KeySpace |-> IF K \in S THEN 0 ELSE @[K]]]

\* history: undisturbed request t answers doc d for K
RetGh(g, t, K, d) ==
  IF rq[t].clean /\ g.ret[K] = 0 THEN [g EXCEPT !.ret[K] = d] ELSE g

\* history: a build for K completed with doc d, answered by t
BuiltGh(t, K, d) == RetGh([gh EXCEPT !.needBuild[K] = FALSE], t, K, d)

\* locals of the other requesters after a build for K completed
OthersAfterBuild(t, K) ==
  [u \in Requesters |->
     IF u # t /\ <<rq[u].kind, rq[u].key>> = K
     THEN [rq[u] EXCEPT !.mustBuild = FALSE] ELSE rq[u]]

\* history: the build of t on its Entry failed with err while the other
\* requests that hold the same Entry stood at "with self._lock"
OthersAfterFailure(t, err) ==
  [u \in Requesters |->
     IF u # t /\ rq[u].pc = "acquire" /\ rq[u].e = rq[t].e
     THEN [rq[u] EXCEPT !.waited = err] ELSE rq[u]]

(* ----------------------- the facade: a request ------------------------ *)

\* get_libdoc_for_library_import / get_libdoc_for_variables_import /
\* _get_entry_for_resource_import up to the end of "with self._..._lock":
\* path resolution, the key, insert-if-absent
Begin(t, k, s) ==
  /\ Active(t) /\ k \in ReqKinds
  /\ rq[t].pc \in {"idle", "done"}
  /\ rq[t].n < MaxRequests
  /\ s \in {NoSentinel} \cup ({SentinelOf(t)} \cap live)
  /\ LET key  == EntryKey(k)
         K    == <<k, key>>
         base == [IdleRq EXCEPT !.n = rq[t].n + 1, !.kind = k, !.key = key, !.sent = s,
                    !.expect = gh.ret[K], !.clean = TRUE,
                    !.mustBuild = gh.needBuild[K],
                    !.found = IF files_cache[k] # NoPath THEN "memo"
                              ELSE IF gh.cleared[k] THEN "recomputed" ELSE "computed"]
     IN IF Find(k) = NoPath
        THEN /\ rq' = [rq EXCEPT ![t] = Returned(base, 0, "none", "ResolveFailed")]
             /\ UNCHANGED <<reg, ent, nEnt, files_cache, gh>>
        ELSE /\ regLock[k] = Free
             /\ files_cache' = Memoized(files_cache, k)
             /\ gh' = [gh EXCEPT !.cleared[k] = FALSE]
             /\ IF Absent(k, key)
                THEN /\ nEnt < MaxEntries
                     /\ nEnt' = nEnt + 1
                     /\ ent' = [ent EXCEPT ![nEnt + 1] = NewEntry(k, key, s)]
                     /\ reg' = [reg EXCEPT ![k] = RegPut(@, key, nEnt + 1)]
                ELSE UNCHANGED <<reg, ent, nEnt>>
             /\ rq' = [rq EXCEPT ![t] = [base EXCEPT !.pc = "lookup"]]
  /\ UNCHANGED <<scn, regLock, dsp, live, mtime, present, disk, nBuild, nBatch,
                 events, opened, cache, fpb, resfile, ws, fv, clv, deb>>

\* entry = self._libaries[entry_key], read outside the registry lock
Lookup(t) ==
  /\ rq[t].pc = "lookup"
  /\ LET e == RegGet(rq[t].kind, rq[t].key) IN
       IF e = 0
       THEN rq' = [rq EXCEPT ![t] = Returned(@, 0, "none", "KeyError")]
       ELSE rq' = [rq EXCEPT ![t].e = e,
                             ![t].pc = IF NeedsRef(ent[e], rq[t].sent)
                                       THEN "addref" ELSE "acquire"]
  /\ UNCHANGED <<scn, reg, regLock, ent, nEnt, dsp, live, mtime, present, disk,
                 nBuild, nBatch, events, opened, cache, fpb, files_cache, resfile, ws, fv, clv, deb, gh>>

\* entry.references.add(sentinel); weakref.finalize(sentinel, remove, key, entry)
AddRef(t) ==
  /\ rq[t].pc = "addref"
  /\ ent' = [ent EXCEPT ![rq[t].e].references = @ \cup {rq[t].sent},
                        ![rq[t].e].hooks = Append(@, rq[t].sent)]
  /\ rq' = [rq EXCEPT ![t].pc = "acquire"]
  /\ gh' = [gh EXCEPT !.reclaimedLast[rq[t].e] = FALSE]
  /\ UNCHANGED <<scn, reg, regLock, nEnt, dsp, live, mtime, present, disk,
                 nBuild, nBatch, events, opened, cache, fpb, files_cache, resfile, ws, fv, clv, deb>>

\* _ResourcesEntry.get_libdoc under the Entry lock: _get_namespace,
\* _get_document, _update and the namespace's library doc; the ImportError
\* of _get_document leaves _update before _document is assigned, an error
\* of the namespace leaves get_libdoc after _update, with no doc
ResourceGetLibdoc(t, e) ==
  LET x == ent[e]
      K == <<x.kind, x.key>>
      w == IF ~x.document /\ x.key.name \notin opened
           THEN Append(x.file_watchers, WatchGlob("Resource", x.key))
           ELSE x.file_watchers
  IN IF x.lib_doc # 0
     THEN /\ rq' = [rq EXCEPT ![t] = Returned(@, x.lib_doc, "memory", "none")]
          /\ gh' = RetGh(gh, t, K, x.lib_doc)
          /\ UNCHANGED <<ent, nBuild>>
     ELSE IF ~x.document /\ ~ExtensionAllowed(resfile)
     THEN /\ rq' = [rq EXCEPT ![t] = Returned(@, 0, "none", "ImportError")]
          /\ UNCHANGED <<ent, nBuild, gh>>
     ELSE \/ /\ nBuild < MaxBuilds
             /\ nBuild' = nBuild + 1
             /\ ent' = [ent EXCEPT ![e].document = TRUE, ![e].file_watchers = w,
                                   ![e].lib_doc = nBuild + 1]
             /\ rq' = [OthersAfterBuild(t, K) EXCEPT
                         ![t] = [Returned(@, nBuild + 1, "namespace", "none") EXCEPT
                                   !.early = gh.pendingEvent[K]]]
             /\ gh' = BuiltGh(t, K, nBuild + 1)
          \/ /\ ent' = [ent EXCEPT ![e].document = TRUE, ![e].file_watchers = w]
             /\ rq' = [rq EXCEPT ![t] = Returned(@, 0, "none", "NamespaceError")]
             /\ UNCHANGED <<nBuild, gh>>

\* Entry.get_libdoc: "with self._lock", answer from memory or start _update
Acquire(t) ==
  /\ rq[t].pc = "acquire"
  /\ LET e == rq[t].e IN
     /\ ent[e].lock = Free
     /\ IF ent[e].kind = "Resource"
        THEN ResourceGetLibdoc(t, e)
        ELSE IF ent[e].lib_doc # 0
             THEN /\ rq' = [rq EXCEPT ![t] = Returned(@, ent[e].lib_doc, "memory", "none")]
                  /\ gh' = RetGh(gh, t, <<rq[t].kind, rq[t].key>>, ent[e].lib_doc)
                  /\ UNCHANGED <<ent, nBuild>>
             ELSE /\ ent' = [ent EXCEPT ![e].lock = t]
                  /\ rq' = [rq EXCEPT ![t].pc = "meta"]
                  /\ UNCHANGED <<nBuild, gh>>
  /\ UNCHANGED <<scn, reg, regLock, nEnt, dsp, live, mtime, present, disk,
                 nBatch, events, opened, cache, fpb, files_cache, resfile, ws, fv, clv, deb>>

\* a cache test that does not compare the stored meta with the fresh one
CacheHit_IgnoresMeta(meta, stored) == meta # NoMeta /\ stored.spec # 0

\* the cache test of _get_libdoc: the stored meta equals the fresh one and the
\* spec file can be read
CacheHit(meta, stored) ==
  meta # NoMeta /\ stored.meta # NoMeta /\ stored.meta = meta /\ stored.spec # 0

\* a failed build that leaves a watcher subscription behind
BuildFailed_WithWatcher(x) ==
  [x EXCEPT !.lock = Free, !.file_watchers = Append(@, WatchGlob(x.kind, x.key))]

\* the exception of a failed build leaves _update before _lib_doc is assigned
\* and before any watcher is added; "with self._lock" releases the Entry lock
BuildFailed(x) == [x EXCEPT !.lock = Free]

\* the end of get_library_meta / get_variables_meta when find_library /
\* find_variables raised inside the try: "except BaseException: pass", then
\* "return None, import_name" with import_name never assigned (libraries)
\* or "return None, name" (variables)
MetaRaises(k) == k = "Library" /\ Find(k) = NoPath

\* _get_libdoc up to executor.submit: the fingerprint, the cache lookup, and on
\* a miss the start of a fresh one-shot worker; an exception of the
\* fingerprinter propagates out of get_libdoc
Meta(t) ==
  /\ rq[t].pc = "meta"
  /\ LET k    == rq[t].kind
         meta == IF Find(k) = NoPath THEN NoMeta ELSE Fingerprint(rq[t].key)
     IN IF MetaRaises(k)
        THEN /\ ent' = [ent EXCEPT ![rq[t].e] = BuildFailed(@)]
             /\ rq' = [OthersAfterFailure(t, "UnboundLocalError") EXCEPT
                         ![t] = Returned(@, 0, "none", "UnboundLocalError")]
             /\ UNCHANGED <<files_cache, gh>>
        ELSE /\ IF CacheHit(meta, disk[k])
                THEN rq' = [rq EXCEPT ![t].pc = "finish", ![t].meta = meta,
                                      ![t].dmeta = disk[k].meta,
                                      ![t].cand = disk[k].spec, ![t].how = "disk"]
                ELSE /\ nBuild < MaxBuilds
                     /\ rq' = [rq EXCEPT ![t].pc = "wait", ![t].meta = meta,
                                         ![t].dmeta = disk[k].meta,
                                         ![t].worker = "running"]
             /\ files_cache' = Memoized(files_cache, k)
             /\ gh' = IF Find(k) = NoPath THEN gh ELSE [gh EXCEPT !.cleared[k] = FALSE]
             /\ UNCHANGED ent
  /\ UNCHANGED <<scn, reg, regLock, nEnt, dsp, live, mtime, present, disk,
                 nBuild, nBatch, events, opened, cache, fpb, resfile, ws, fv, clv, deb>>

\* what a successful _get_libdoc leaves on disk: spec.json, then meta.json,
\* when the import is cacheable
CacheWrite(stored, meta, doc) ==
  IF meta # NoMeta THEN [meta |-> meta, spec |-> doc] ELSE stored

\* the worker answers within the deadline: result(), shutdown, cache write;
\* a cache write that fails is logged and leaves the files as they were
IntroReturn(t, saved) ==
  /\ rq[t].pc = "wait" /\ rq[t].worker = "running"
  /\ nBuild' = nBuild + 1
  /\ disk' = IF saved
             THEN [disk EXCEPT ![rq[t].kind] = CacheWrite(@, rq[t].meta, nBuild + 1)]
             ELSE disk
  /\ rq' = [rq EXCEPT ![t].pc = "finish", ![t].cand = nBuild + 1,
                      ![t].worker = "none", ![t].how = "introspect"]
  /\ UNCHANGED <<scn, reg, regLock, ent, nEnt, dsp, live, mtime, present,
                 nBatch, events, opened, cache, fpb, files_cache, resfile, ws, fv, clv, deb, gh>>

\* the worker raises or dies: result() raises, shutdown returns, the
\* exception propagates out of get_libdoc
IntroRaise(t) ==
  /\ rq[t].pc = "wait" /\ rq[t].worker = "running"
  /\ ent' = [ent EXCEPT ![rq[t].e] = BuildFailed(@)]
  /\ rq' = [OthersAfterFailure(t, "LoadFailed") EXCEPT
              ![t] = Returned(@, 0, "none", "LoadFailed")]
  /\ UNCHANGED <<scn, reg, regLock, nEnt, dsp, live, mtime, present, disk,
                 nBuild, nBatch, events, opened, cache, fpb, files_cache, resfile, ws, fv, clv, deb, gh>>

\* result(LOAD_LIBRARY_TIME_OUT) raises TimeoutError; the finally clause
\* calls executor.shutdown(wait=True); the worker never ends, or it was slow
\* and ends its call while shutdown waits for it
IntroTimeout(t, hung) ==
  /\ rq[t].pc = "wait"
  /\ rq' = [rq EXCEPT ![t].pc = "shutdown",
                      ![t].worker = IF hung THEN "hung" ELSE "exited"]
  /\ UNCHANGED <<scn, reg, regLock, ent, nEnt, dsp, live, mtime, present, disk,
                 nBuild, nBatch, events, opened, cache, fpb, files_cache, resfile, ws, fv, clv, deb, gh>>

\* executor.shutdown(wait=True) returns once the worker has finished
ShutdownReturns(w) == w = "exited"

\* shutdown returned: the TimeoutError propagates out of get_libdoc
ShutdownDone(t) ==
  /\ rq[t].pc = "shutdown" /\ ShutdownReturns(rq[t].worker)
  /\ ent' = [ent EXCEPT ![rq[t].e] = BuildFailed(@)]
  /\ rq' = [OthersAfterFailure(t, "Timeout") EXCEPT
              ![t] = Returned(@, 0, "none", "Timeout")]
  /\ UNCHANGED <<scn, reg, regLock, nEnt, dsp, live, mtime, present, disk,
                 nBuild, nBatch, events, opened, cache, fpb, files_cache, resfile, ws, fv, clv, deb, gh>>

\* an _update that subscribes the watcher but does not keep the doc
Updated_DropsDoc(x, doc) ==
  [x EXCEPT !.file_watchers = Append(@, WatchGlob(x.kind, x.key)), !.lock = Free]

\* an _update that keeps the doc but subscribes no file watcher
Updated_NoWatcher(x, doc) == [x EXCEPT !.lib_doc = doc, !.lock = Free]

\* the rest of _update: assign _lib_doc, subscribe the file watcher; then
\* get_libdoc returns the doc and releases the Entry lock
Updated(x, doc) ==
  [x EXCEPT !.lib_doc = doc,
            !.file_watchers = Append(@, WatchGlob(x.kind, x.key)),
            !.lock = Free]

Finish(t) ==
  /\ rq[t].pc = "finish"
  /\ LET e == rq[t].e
         K == <<rq[t].kind, rq[t].key>>
     IN /\ ent' = [ent EXCEPT ![e] = Updated(@, rq[t].cand)]
        /\ rq' = [OthersAfterBuild(t, K) EXCEPT
                    ![t] = [Returned(@, rq[t].cand, rq[t].how, "none") EXCEPT
                              !.early = gh.pendingEvent[K]]]
        /\ gh' = BuiltGh(t, K, rq[t].cand)
  /\ UNCHANGED <<scn, reg, regLock, nEnt, dsp, live, mtime, present, disk,
                 nBuild, nBatch, events, opened, cache, fpb, files_cache, resfile, ws, fv, clv, deb>>


(* ------------------- the dispatcher: a file-event batch --------------- *)

\* an _invalidate that clears the doc but keeps the watcher subscriptions
Invalidate_KeepsWatchers(x) == [x EXCEPT !.document = FALSE, !.lib_doc = 0]

\* an _invalidate that releases the watchers but keeps the doc
Invalidate_KeepsDoc(x) == [x EXCEPT !.file_watchers = <<>>]

\* the subscriptions _invalidate hands to remove_file_watcher_entry: none on
\* the early return, else every one the Entry owns
Unregistered(x) ==
  IF x.kind = "Resource"
  THEN IF ~x.document /\ Len(x.file_watchers) = 0 THEN <<>> ELSE x.file_watchers
  ELSE IF x.lib_doc = 0 /\ Len(x.file_watchers) = 0 THEN <<>> ELSE x.file_watchers

\* Entry._invalidate: release the watchers, clear the doc
Invalidate(x) ==
  IF x.kind = "Resource"
  THEN IF ~x.document /\ Len(x.file_watchers) = 0 THEN x
       ELSE [x EXCEPT !.file_watchers = <<>>, !.document = FALSE, !.lib_doc = 0]
  ELSE IF x.lib_doc = 0 /\ Len(x.file_watchers) = 0 THEN x
       ELSE [x EXCEPT !.file_watchers = <<>>, !.lib_doc = 0]

\* the test check_file_changed applies to one change
EntryMatches(x, c) ==
  /\ c.scheme = "file"
  /\ CASE x.kind = "Library"   -> x.lib_doc # 0 /\ PathUnder(c.path, Parent(x.key.name))
       [] x.kind = "Resource"  -> (x.document /\ c.path = x.key.name) \/ ~x.document
       [] x.kind = "Variables" -> x.lib_doc # 0 /\ c.path \in present
                                  /\ c.path = x.key.name

RECURSIVE FirstMatchFrom(_, _, _)
FirstMatchFrom(x, changes, i) ==
  IF i > Len(changes) THEN 0
  ELSE IF EntryMatches(x, changes[i]) THEN i ELSE FirstMatchFrom(x, changes, i + 1)

\* check_file_changed: the index of the first change that matches, 0 for None
FirstMatch(x, changes) == FirstMatchFrom(x, changes, 1)

\* a dispatcher that emits libraries_changed before it scans the resources
\* and the variables
DispatchOrder_EmitsEarly ==
  << <<"scan", "Library">>, <<"post", "Library">>, <<"scan", "Resource">>,
     <<"scan", "Variables">>, <<"post", "Resource">>, <<"post", "Variables">> >>

\* the statements of did_change_watched_files in program order: the three
\* scans, then per kind the evictions and the *_changed event
DispatchOrder ==
  << <<"scan", "Library">>, <<"scan", "Resource">>, <<"scan", "Variables">>,
     <<"post", "Library">>, <<"post", "Resource">>, <<"post", "Variables">> >>

IdleDsp == [pc |-> "idle", changes |-> <<>>, stage |-> 0, items |-> <<>>, i |-> 0,
            cur |-> 0, acc |-> [k \in Kinds |-> <<>>], err |-> "none"]

StageKind(n) == DispatchOrder[n][2]

RECURSIVE NextDeleted(_, _)
\* the next tuple of the list, from position i on, whose type is DELETED
NextDeleted(list, i) ==
  IF i > Len(list) THEN 0
  ELSE IF list[i].type = "Deleted" THEN i ELSE NextDeleted(list, i + 1)

\* no scan follows statement n
ScansDone(n) == \A m \in n..Len(DispatchOrder) : DispatchOrder[m][1] # "scan"

RECURSIVE EnterStage(_, _)
\* the dispatcher's position when it reaches statement n; the scan of a
\* registry no thread of the scenario uses finds it empty, and the changes
\* are not read after the scans
EnterStage(d, n) ==
  IF n > Len(DispatchOrder)
  THEN [d EXCEPT !.pc = "end", !.stage = n, !.items = <<>>, !.i = 0, !.cur = 0,
                 !.changes = <<>>]
  ELSE IF DispatchOrder[n][1] = "scan"
       THEN IF StageKind(n) \notin ReqKinds THEN EnterStage(d, n + 1)
            ELSE [d EXCEPT !.pc = "scanlock", !.stage = n, !.items = <<>>, !.i = 0,
                           !.cur = 0]
       ELSE IF d.acc[StageKind(n)] = <<>> THEN EnterStage(d, n + 1)
            ELSE [d EXCEPT !.stage = n, !.items = <<>>, !.cur = 0,
                    !.changes = IF ScansDone(n) THEN <<>> ELSE @,
                    !.i = NextDeleted(d.acc[StageKind(n)], 1),
                    !.pc = IF NextDeleted(d.acc[StageKind(n)], 1) = 0
                           THEN "emit" ELSE "remove"]

\* the events of a scenario: changes and deletions of its source files, a
\* change outside the watched directory and one of a document not on disk
ScnEvents ==
  {c \in FileEvents : \/ c.scheme = "file" /\ c.path \in {Source(k) : k \in ReqKinds}
                      \/ c.scheme = "file" /\ c.path = OutPath /\ c.type = "Changed"
                      \/ c.scheme = "untitled" /\ c.path = Source("Resource")
                         /\ c.type = "Changed"}

\* the events on the resource file and the variables file
PairEvents == {c \in ScnEvents : c.scheme = "file" /\ c.path \in {ResPath, VarPath}}

\* the batches: every single event, and with all kinds the pairs of two
\* different events on the resource file and the variables file
Batches ==
  {<<c>> : c \in ScnEvents} \cup
  (IF scn = "All"
   THEN {b \in {<<c1, c2>> : c1 \in PairEvents, c2 \in PairEvents} : b[1] # b[2]}
   ELSE {})

\* workspace/didChangeWatchedFiles arrives: did_change_watched_files(changes)
DispatchStart(changes) ==
  /\ dsp.pc \in {"idle", "end"}
  /\ nBatch < MaxBatches
  /\ changes \in Batches
  /\ nBatch' = nBatch + 1
  /\ dsp' = EnterStage([IdleDsp EXCEPT !.changes = changes], 1)
  /\ rq' = TaintRq(rq, {K \in KeySpace : KeyMatches(K, changes)})
  /\ gh' = [TaintGh(gh, {K \in KeySpace : KeyMatches(K, changes)}) EXCEPT
              !.delRes = {e \in EntryIds :
                            /\ InRegistry(e) /\ ent[e].kind = "Resource"
                            /\ ent[e].document /\ ent[e].lib_doc # 0
                            /\ \E i \in 1..Len(changes) :
                                  changes[i] = [scheme |-> "file",
                                                path |-> ent[e].key.name,
                                                type |-> "Deleted"]},
              !.delDoc = [e \in EntryIds |-> ent[e].lib_doc],
              !.startMatch = {e \in EntryIds : /\ InRegistry(e) /\ IsValid(ent[e])
                                               /\ FirstMatch(ent[e], changes) # 0},
              !.invalidated = {},
              !.evicted = {},
              !.held = [k \in Kinds |-> <<>>]]
  /\ UNCHANGED <<scn, reg, regLock, ent, nEnt, live, mtime, present, disk, nBuild,
                 events, opened, cache, fpb, files_cache, resfile, ws, fv, clv, deb>>

\* "with self._libaries_lock:" and the start of the loop over the items
ScanLock ==
  /\ dsp.pc = "scanlock"
  /\ LET k == StageKind(dsp.stage) IN
     /\ regLock[k] = Free
     /\ IF reg[k] = <<>>
        THEN /\ dsp' = EnterStage(dsp, dsp.stage + 1)
             /\ UNCHANGED regLock
        ELSE /\ dsp' = [dsp EXCEPT !.pc = "peek", !.items = reg[k], !.i = 1]
             /\ regLock' = [regLock EXCEPT ![k] = Dispatcher]
  /\ UNCHANGED <<scn, reg, ent, nEnt, rq, live, mtime, present, disk, nBuild, nBatch,
                 events, opened, cache, fpb, files_cache, resfile, ws, fv, clv, deb, gh>>

\* an exception of get_libdoc leaves the scan, "with self._..._lock" and
\* did_change_watched_files: no statement after the scan is executed
ScanRaised(d, err) ==
  [d EXCEPT !.pc = "end", !.err = err, !.items = <<>>, !.i = 0, !.cur = 0,
            !.changes = <<>>]

\* lib_doc = entry.get_libdoc() if entry.is_valid() else None; the doc of a
\* resource that holds its document but no doc is built here, and the
\* error of that build is raised again
ScanPeek ==
  /\ dsp.pc = "peek"
  /\ LET e == dsp.items[dsp.i].e
         x == ent[e]
     IN /\ x.lock = Free
        /\ IF x.kind = "Resource" /\ x.document /\ x.lib_doc = 0
           THEN \/ /\ nBuild < MaxBuilds
                   /\ nBuild' = nBuild + 1
                   /\ ent' = [ent EXCEPT ![e].lib_doc = nBuild + 1]
                   /\ dsp' = [dsp EXCEPT !.pc = "check", !.cur = nBuild + 1]
                   /\ UNCHANGED regLock
                \/ /\ dsp' = ScanRaised(dsp, "NamespaceError")
                   /\ regLock' = [regLock EXCEPT ![x.kind] = Free]
                   /\ UNCHANGED <<ent, nBuild>>
           ELSE /\ dsp' = [dsp EXCEPT !.pc = "check",
                                      !.cur = IF IsValid(x) THEN x.lib_doc ELSE 0]
                /\ UNCHANGED <<ent, nBuild, regLock>>
  /\ UNCHANGED <<scn, reg, nEnt, rq, live, mtime, present, disk, nBatch,
                 events, opened, cache, fpb, files_cache, resfile, ws, fv, clv, deb, gh>>

\* result = entry.check_file_changed(changes); the tuple is recorded on a match
ScanCheck ==
  /\ dsp.pc = "check"
  /\ LET e == dsp.items[dsp.i].e
         x == ent[e]
         k == StageKind(dsp.stage)
         K == <<k, x.key>>
         m == FirstMatch(x, dsp.changes)
         acc1 == IF m = 0 THEN dsp.acc
                 ELSE [dsp.acc EXCEPT ![k] = Append(@, [key |-> x.key,
                                                        type |-> dsp.changes[m].type,
                                                        doc |-> dsp.cur])]
         d1 == [dsp EXCEPT !.acc = acc1]
     IN /\ x.lock = Free
        /\ ent' = IF m = 0 THEN ent ELSE [ent EXCEPT ![e] = Invalidate(x)]
        /\ IF dsp.i < Len(dsp.items)
           THEN /\ dsp' = [d1 EXCEPT !.pc = "peek", !.i = dsp.i + 1, !.cur = 0]
                /\ UNCHANGED regLock
           ELSE /\ dsp' = EnterStage(d1, dsp.stage + 1)
                /\ regLock' = [regLock EXCEPT ![k] = Free]
        /\ rq' = IF m = 0 THEN rq ELSE TaintRq(rq, {K})
        /\ gh' = IF m = 0 THEN gh
                 ELSE IF ~IsValid(x) THEN TaintGh(gh, {K})
                 ELSE [TaintGh(gh, {K}) EXCEPT
                         !.invalidated = @ \cup {e},
                         !.needBuild[K] = TRUE,
                         !.pendingEvent[K] = (dsp.cur # 0),
                         !.held[k] = Append(@, x.lib_doc)]
  /\ UNCHANGED <<scn, reg, nEnt, live, mtime, present, disk, nBuild, nBatch,
                 events, opened, cache, fpb, files_cache, resfile, ws, fv, clv, deb>>

\* the test of __remove_*_entry made inside the registry lock
InnerCheck(k, refs, now) ==
  IF k = "Resource" THEN Cardinality(refs) = 0 \/ now ELSE Cardinality(refs) = 0

\* the test of __remove_*_entry made before taking the registry lock
OuterCheck(refs, now) == Cardinality(refs) = 0 \/ now

\* the position after the eviction at index i of the list is finished
AfterRemove(d) ==
  LET nx == NextDeleted(d.acc[StageKind(d.stage)], d.i + 1) IN
    [d EXCEPT !.i = nx, !.pc = IF nx = 0 THEN "emit" ELSE "remove"]

\* self.__remove_*_entry(key, self._...[key], True) up to the pop
RemovePop ==
  /\ dsp.pc = "remove"
  /\ LET k   == StageKind(dsp.stage)
         key == dsp.acc[k][dsp.i].key
         e   == RegGet(k, key)
     IN IF e = 0
        THEN /\ dsp' = [dsp EXCEPT !.pc = "end", !.err = "KeyError"]
             /\ UNCHANGED <<reg, regLock, rq, gh, files_cache>>
        ELSE /\ regLock[k] = Free
             /\ IF OuterCheck(ent[e].references, TRUE)
                   /\ InnerCheck(k, ent[e].references, TRUE)
                THEN /\ reg' = [reg EXCEPT ![k] = SeqWithout(@, key)]
                     /\ regLock' = [regLock EXCEPT ![k] = Dispatcher]
                     /\ dsp' = [dsp EXCEPT !.pc = "rminv", !.cur = e]
                     /\ rq' = TaintRq(rq, {<<k, key>>})
                     /\ gh' = [TaintGh(gh, {<<k, key>>}) EXCEPT !.evicted = @ \cup {e}]
                     /\ UNCHANGED files_cache
                ELSE /\ dsp' = AfterRemove(dsp)
                     /\ files_cache' = FilesCacheClear(files_cache, {k})
                     /\ gh' = [gh EXCEPT !.cleared[k] = TRUE]
                     /\ UNCHANGED <<reg, regLock, rq>>
  /\ UNCHANGED <<scn, ent, nEnt, live, mtime, present, disk, nBuild, nBatch,
                 events, opened, cache, fpb, resfile, ws, fv, clv, deb>>

\* entry.invalidate() of the popped Entry, still inside the registry lock,
\* and the finally clause of the removal
RemoveInvalidate ==
  /\ dsp.pc = "rminv"
  /\ LET k == StageKind(dsp.stage)
         e == dsp.cur
     IN /\ ent[e].lock = Free
        /\ ent' = [ent EXCEPT ![e] = Invalidate(@)]
        /\ regLock' = [regLock EXCEPT ![k] = Free]
        /\ dsp' = AfterRemove([dsp EXCEPT !.cur = 0])
        /\ rq' = TaintRq(rq, {<<k, ent[e].key>>})
        /\ files_cache' = FilesCacheClear(files_cache, {k})
        /\ gh' = IF IsValid(ent[e])
                 THEN [TaintGh(gh, {<<k, ent[e].key>>}) EXCEPT
                         !.invalidated = @ \cup {e}, !.needBuild[<<k, ent[e].key>>] = TRUE,
                         !.cleared[k] = TRUE]
                 ELSE [TaintGh(gh, {<<k, ent[e].key>>}) EXCEPT !.cleared[k] = TRUE]
  /\ UNCHANGED <<scn, reg, nEnt, live, mtime, present, disk, nBuild, nBatch,
                 events, opened, cache, fpb, resfile, ws, fv, clv, deb>>

RECURSIVE DocsOf(_)
\* [v for (_, _, v) in list if v is not None]
DocsOf(list) ==
  IF list = <<>> THEN <<>>
  ELSE IF Head(list).doc # 0 THEN <<Head(list).doc>> \o DocsOf(Tail(list))
       ELSE DocsOf(Tail(list))

\* self.libraries_changed / resources_changed / variables_changed
Emit ==
  /\ dsp.pc = "emit"
  /\ LET k == StageKind(dsp.stage) IN
     /\ events' = Append(events, [by |-> "batch", batch |-> nBatch, kind |-> k,
                                  docs |-> DocsOf(dsp.acc[k])])
     /\ dsp' = EnterStage(dsp, dsp.stage + 1)
     /\ gh' = [gh EXCEPT !.pendingEvent =
                 [K \in KeySpace |-> IF K[1] = k THEN FALSE ELSE @[K]]]
  /\ UNCHANGED <<scn, reg, regLock, ent, nEnt, rq, live, mtime, present, disk,
                 nBuild, nBatch, opened, cache, fpb, files_cache, resfile, ws, fv, clv, deb>>


(* ------------------ reclamation of a sentinel, the files -------------- *)

\* a hook that runs after the WeakSet has dropped the dying sentinel
RefsSeenByHook_AfterDrop(refs, s) == refs \ {s}

\* the references the reclamation hook of sentinel s finds on the Entry: the
\* hook (weakref.finalize) is registered after the WeakSet's own weak
\* reference and the interpreter calls the callbacks of a dying object
\* most recently registered first, so the dying sentinel is still a member
RefsSeenByHook(refs, s) == refs

\* Entries the hooks of sentinel s remove: __remove_*_entry(key, entry) with
\* now = False
HookRemoves(s) ==
  {e \in EntryIds : /\ s \in ent[e].references
                    /\ OuterCheck(RefsSeenByHook(ent[e].references, s), FALSE)
                    /\ InnerCheck(ent[e].kind, RefsSeenByHook(ent[e].references, s), FALSE)
                    /\ InRegistry(e)}

\* the kinds of the Entries on which sentinel s has a finalizer
HookKinds(s) ==
  {ent[e].kind : e \in {e \in EntryIds : \E i \in 1..Len(ent[e].hooks) : ent[e].hooks[i] = s}}

RECURSIVE SeqWithoutEntries(_, _)
SeqWithoutEntries(items, E) ==
  IF items = <<>> THEN <<>>
  ELSE IF Head(items).e \in E THEN SeqWithoutEntries(Tail(items), E)
       ELSE <<Head(items)>> \o SeqWithoutEntries(Tail(items), E)

\* the sentinel s is garbage collected: its hooks run, each ending with the
\* clear of its kind's path-resolution cache, then the WeakSets drop it
Reclaim(s) ==
  /\ s \in live
  /\ \E e \in EntryIds : s \in ent[e].references
  /\ \A t \in Requesters : rq[t].sent = s => rq[t].pc \in {"idle", "done"}
  /\ \A e \in HookRemoves(s) : ent[e].lock = Free /\ regLock[ent[e].kind] = Free
  /\ live' = live \ {s}
  /\ reg' = [k \in Kinds |-> SeqWithoutEntries(reg[k], HookRemoves(s))]
  /\ ent' = [e \in EntryIds |->
               LET x == IF e \in HookRemoves(s) THEN Invalidate(ent[e]) ELSE ent[e]
               IN [x EXCEPT !.references = @ \ {s},
                            !.hooks = SelectSeq(@, LAMBDA h : h # s)]]
  /\ rq' = TaintRq(rq, {<<ent[e].kind, ent[e].key>> : e \in HookRemoves(s)})
  /\ files_cache' = FilesCacheClear(files_cache, HookKinds(s))
  /\ gh' = [TaintGh(gh, {<<ent[e].kind, ent[e].key>> : e \in HookRemoves(s)}) EXCEPT
              !.reclaimedLast = [e \in EntryIds |->
                                   IF ent[e].references = {s} THEN TRUE ELSE @[e]],
              !.cleared = [k \in Kinds |-> IF k \in HookKinds(s) THEN TRUE ELSE @[k]]]
  /\ UNCHANGED <<scn, regLock, nEnt, dsp, mtime, present, disk, nBuild, nBatch,
                 events, opened, cache, fpb, resfile, ws, fv, clv, deb>>

\* a clear_cache that also drops the docs held in memory
ClearCache_DropsDocs ==
  /\ \E k \in Kinds : disk[k] # [meta |-> NoMeta, spec |-> 0]
  /\ disk' = [k \in Kinds |-> [meta |-> NoMeta, spec |-> 0]]
  /\ ent' = [e \in EntryIds |-> [ent[e] EXCEPT !.lib_doc = 0]]
  /\ UNCHANGED <<scn, reg, regLock, nEnt, rq, dsp, live, mtime, present, nBuild,
                 nBatch, events, opened, cache, fpb, files_cache, resfile, ws, fv, clv, deb, gh>>

\* clear_cache: if self.cache_path.exists(): shutil.rmtree(self.cache_path)
ClearCache ==
  /\ \E k \in Kinds : disk[k] # [meta |-> NoMeta, spec |-> 0]
  /\ disk' = [k \in Kinds |-> [meta |-> NoMeta, spec |-> 0]]
  /\ UNCHANGED <<scn, reg, regLock, ent, nEnt, rq, dsp, live, mtime, present, nBuild,
                 nBatch, events, opened, cache, fpb, files_cache, resfile, ws, fv, clv, deb, gh>>

\* modifications and deletions of source files so far
FsOps ==
  mtime[LibPath] + mtime[ResPath] + mtime[VarPath] + mtime[OutPath]
    + Cardinality(Paths \ present)

KeysOfPath(p) == {K \in KeySpace : K[2].name = p}

\* the source file p is modified on disk
Touch(p) ==
  /\ p \in present /\ p \in {Source(k) : k \in ReqKinds}
  /\ FsOps < MaxFsOps
  /\ mtime' = [mtime EXCEPT ![p] = @ + 1]
  /\ rq' = TaintRq(rq, KeysOfPath(p))
  /\ gh' = TaintGh(gh, KeysOfPath(p))
  /\ UNCHANGED <<scn, reg, regLock, ent, nEnt, dsp, live, present, disk, nBuild,
                 nBatch, events, opened, cache, fpb, files_cache, resfile, ws, fv, clv, deb>>

\* the source file p is deleted from disk
FsDelete(p) ==
  /\ p \in present /\ p \in {Source(k) : k \in ReqKinds}
  /\ FsOps < MaxFsOps
  /\ present' = present \ {p}
  /\ rq' = TaintRq(rq, KeysOfPath(p))
  /\ gh' = [TaintGh(gh, KeysOfPath(p)) EXCEPT
              !.startMatch = {e \in @ : ~(ent[e].kind = "Variables"
                                          /\ ent[e].key.name = p)}]
  /\ UNCHANGED <<scn, reg, regLock, ent, nEnt, dsp, live, mtime, disk, nBuild,
                 nBatch, events, opened, cache, fpb, files_cache, resfile, ws, fv, clv, deb>>

(* ------------------- the debounce of document edits ------------------- *)

\* the threading.Timer objects, one per timer started
TimerIds == 1..MaxChanges

\* no timer, no pending document (__init__)
IdleDeb == [now |-> 0, timer |-> 0, documents |-> {}, nTimers |-> 0, nChanges |-> 0,
            timers |-> [i \in TimerIds |-> [st |-> "none", deadline |-> 0]],
            burstStart |-> -1, unseen |-> {}, raced |-> FALSE]

\* the open resource document whose burst of edits is followed
BurstDoc == ResPath

\* Timer.cancel(): a timer still waiting never calls its function, a timer
\* whose function has been called is not stopped
Cancelled(tm) == IF tm.st = "pending" THEN [tm EXCEPT !.st = "done"] ELSE tm

\* a Timer object that is constructed and never started
StartTimer_NotStarted(deadline) == [st |-> "none", deadline |-> deadline]

\* threading.Timer(interval, __resource_documents_changed) and start(): the
\* new timer waits for its deadline
StartTimer(deadline) == [st |-> "pending", deadline |-> deadline]

\* resource_document_changed(document): a did_change notification of an open
\* document; the edits of BurstDoc all arrive less than one interval after
\* the first of them
DidChange(doc) ==
  /\ doc \in opened
  /\ deb.nChanges < MaxChanges
  /\ doc = BurstDoc =>
       deb.burstStart < 0 \/ deb.now < deb.burstStart + TimerInterval
  /\ LET d1 == [deb EXCEPT !.nChanges = @ + 1,
                           !.burstStart = IF doc = BurstDoc /\ @ < 0 THEN deb.now ELSE @,
                           !.unseen = @ \cup {doc},
                           !.raced = @ \/ \E i \in TimerIds : deb.timers[i].st = "started"]
         id == deb.nTimers + 1
     IN deb' = IF doc \in deb.documents THEN d1
               ELSE [d1 EXCEPT
                       !.timers = [i \in TimerIds |->
                                     IF i = id
                                     THEN StartTimer(deb.now + TimerInterval)
                                     ELSE IF i = deb.timer THEN Cancelled(@[i])
                                     ELSE @[i]],
                       !.documents = @ \cup {doc},
                       !.nTimers = id,
                       !.timer = id]
  /\ UNCHANGED <<scn, reg, regLock, ent, nEnt, rq, dsp, live, mtime, present, disk,
                 nBuild, nBatch, events, opened, cache, fpb, files_cache, resfile, ws, fv, clv, gh>>

\* the interval of timer i has passed: its thread calls the function
TimerExpire(i) ==
  /\ deb.timers[i].st = "pending"
  /\ deb.timers[i].deadline <= deb.now
  /\ deb' = [deb EXCEPT !.timers[i].st = "started"]
  /\ UNCHANGED <<scn, reg, regLock, ent, nEnt, rq, dsp, live, mtime, present, disk,
                 nBuild, nBatch, events, opened, cache, fpb, files_cache, resfile, ws, fv, clv, gh>>

\* the Entries __resource_document_changed invalidates: valid, and their
\* document is one of the documents taken
EditedEntries(taken) ==
  {e \in EntryIds : /\ InRegistry(e) /\ ent[e].kind = "Resource"
                    /\ IsValid(ent[e]) /\ ent[e].key.name \in taken}

RECURSIVE EditedDocs(_, _)
\* the docs of those Entries in registry order
EditedDocs(items, taken) ==
  IF items = <<>> THEN <<>>
  ELSE IF Head(items).e \in EditedEntries(taken) /\ ent[Head(items).e].lib_doc # 0
       THEN <<ent[Head(items).e].lib_doc>> \o EditedDocs(Tail(items), taken)
       ELSE EditedDocs(Tail(items), taken)

\* the Entries among them that hold no doc: get_libdoc() builds the
\* namespace of the document, or raises
Unbuilt(taken) == {e \in EditedEntries(taken) : ent[e].lib_doc = 0}

\* __resource_documents_changed, the function of timer i: clear the timer
\* handle, take the pending set, and for the documents taken invalidate the
\* valid Entries and emit resources_changed with the docs they held; an
\* Entry whose get_libdoc() raises is left as it is
ResourceDocumentsChanged(i) ==
  /\ deb.timers[i].st = "started"
  /\ regLock["Resource"] = Free
  /\ \A e \in EditedEntries(deb.documents) : ent[e].lock = Free
  /\ \E raised \in BOOLEAN :
       LET taken == deb.documents
           built == IF raised THEN {} ELSE Unbuilt(taken)
           inv   == EditedEntries(taken) \ (IF raised THEN Unbuilt(taken) ELSE {})
           docs  == EditedDocs(reg["Resource"], taken)
                      \o (IF built = {} THEN <<>> ELSE <<nBuild + 1>>)
       IN /\ raised => Unbuilt(taken) # {}
          /\ built # {} => nBuild < MaxBuilds
          /\ nBuild' = IF built = {} THEN nBuild ELSE nBuild + 1
          /\ deb' = [deb EXCEPT !.timers[i].st = "done", !.timer = 0, !.documents = {},
                                !.unseen = @ \ taken]
          /\ ent' = [e \in EntryIds |-> IF e \in inv THEN Invalidate(ent[e]) ELSE ent[e]]
          /\ events' = IF docs = <<>> THEN events
                       ELSE Append(events, [by |-> "timer", batch |-> 0,
                                            kind |-> "Resource", docs |-> docs])
          /\ rq' = TaintRq(rq, {<<"Resource", ent[e].key>> : e \in inv})
          /\ gh' = TaintGh(gh, {<<"Resource", ent[e].key>> : e \in inv})
  /\ UNCHANGED <<scn, reg, regLock, nEnt, dsp, live, mtime, present, disk,
                 nBatch, opened, cache, fpb, files_cache, resfile, ws, fv, clv>>

\* a second passes; timers fire on time and their functions do not linger
Tick ==
  /\ deb.now < MaxTime
  /\ \A i \in TimerIds :
        /\ deb.timers[i].st # "started"
        /\ ~(deb.timers[i].st = "pending" /\ deb.timers[i].deadline <= deb.now)
  /\ deb' = [deb EXCEPT !.now = @ + 1]
  /\ UNCHANGED <<scn, reg, regLock, ent, nEnt, rq, dsp, live, mtime, present, disk,
                 nBuild, nBatch, events, opened, cache, fpb, files_cache, resfile, ws, fv, clv, gh>>

(* ------------- the artifact files of one library, step by step -------- *)

\* two Entries of one library (same name, different args): both builds use
\* the same <filepath_base>.meta.json and <filepath_base>.spec.json
Builders == {"args1", "args2"}

\* the library's name (p.stem) and its resolved import name
LibName == "Lib"

\* the ignore configurations: none, a pattern on the name, one on the origin
IgnoreConfigs == {{}, {LibName}, {LibPath}}

\* __version__, the meta_version of every Meta this program computes
MetaVersion == "v2"

\* no artifact files: for meta.json the Meta m and meta_version v it holds,
\* the build that wrote it, and whether it parses; for spec.json its doc
\* and whether it parses
NoFiles == [meta |-> [m |-> NoMeta, v |-> "", by |-> 0, ok |-> TRUE],
            spec |-> 0, specOk |-> TRUE]

\* the build of an earlier run and the files it can have left: none, a
\* good pair, a pair of an older program version, a meta.json that does
\* not parse, a meta.json without spec.json, a spec.json that does not parse
PrevBuild == MaxCacheBuilds + 1

GoodPair == [meta |-> [m |-> [origin |-> LibPath, mtime |-> 0], v |-> MetaVersion,
                       by |-> PrevBuild, ok |-> TRUE],
             spec |-> PrevBuild, specOk |-> TRUE]

StoredFiles ==
  {NoFiles, GoodPair,
   [GoodPair EXCEPT !.meta.v = "v1"],
   [GoodPair EXCEPT !.meta.ok = FALSE],
   [GoodPair EXCEPT !.spec = 0],
   [GoodPair EXCEPT !.specOk = FALSE]}

IdleBuilder == [pc |-> "idle", source |-> "", meta |-> NoMeta, seen |-> 0, id |-> 0,
                cand |-> 0, lib_doc |-> 0, accepted |-> <<>>, io |-> 0,
                wrote |-> <<>>, failed |-> FALSE, saw |-> NoFiles.meta,
                miss |-> "none", hit |-> FALSE]

IdleCache == [patterns |-> {}, mt |-> 0, n |-> 0, files |-> NoFiles,
              b |-> [x \in Builders |-> IdleBuilder],
              madeWith |-> [i \in 1..MaxCacheBuilds |-> "none"]]

\* a meta lookup that knows no ignore patterns
Ignored_Never(patterns, name, origin) == FALSE

\* any(p.matches(result.name) or p.matches(result.origin) for p in patterns)
Ignored(patterns, name, origin) == name \in patterns \/ origin \in patterns

\* get_library_meta of a library given by path that exists: (meta, import
\* name), the meta None for an ignored import
LibraryMeta(patterns, mt) ==
  IF Ignored(patterns, LibName, LibPath) THEN <<NoMeta, LibPath>>
  ELSE <<[origin |-> LibPath, mtime |-> mt], LibPath>>

\* Entry.get_libdoc finds no doc: _update calls _get_libdoc, which starts
\* with the meta lookup
CacheGetLibdoc(x) ==
  /\ cache.b[x].pc = "idle" /\ cache.b[x].lib_doc = 0
  /\ cache.n < MaxCacheBuilds
  /\ LET r == LibraryMeta(cache.patterns, cache.mt)
     IN cache' = [cache EXCEPT
          !.n = @ + 1,
          !.b[x] = [@ EXCEPT !.pc = IF r[1] = NoMeta THEN "introspect" ELSE "readMeta",
                             !.meta = r[1], !.source = r[2], !.id = cache.n + 1,
                             !.wrote = <<>>, !.failed = FALSE,
                             !.saw = NoFiles.meta, !.miss = "none", !.hit = FALSE]]
  /\ UNCHANGED <<managerVars, fpb>>

\* a comparison of the stored meta that leaves meta_version out
MetaHit_IgnoresVersion(saved, meta, version) ==
  saved.ok /\ saved.m # NoMeta /\ saved.m = meta

\* saved_meta == meta: the file parses and every field is equal
MetaHit(saved, meta, version) ==
  saved.ok /\ saved.m # NoMeta /\ saved.m = meta /\ saved.v = version

\* why a read of meta.json is a miss
MetaMiss(saved) ==
  IF saved.m = NoMeta /\ saved.ok THEN "absent"
  ELSE IF ~saved.ok THEN "malformed" ELSE "mismatch"

\* meta_file.exists(), read_text, from_json, saved_meta == meta; an error
\* is logged and the build goes on to introspection
CacheReadMeta(x) ==
  /\ cache.b[x].pc = "readMeta"
  /\ cache' = [cache EXCEPT
       !.b[x] = IF MetaHit(cache.files.meta, cache.b[x].meta, MetaVersion)
                THEN [@ EXCEPT !.pc = "readSpec", !.seen = cache.files.meta.by,
                               !.saw = cache.files.meta, !.io = @ + 1]
                ELSE [@ EXCEPT !.pc = "introspect", !.seen = cache.files.meta.by,
                               !.saw = cache.files.meta, !.io = @ + 1,
                               !.miss = MetaMiss(cache.files.meta)]]
  /\ UNCHANGED <<managerVars, fpb>>

\* return from_json(spec_path.read_text()); a missing file raises, the
\* error is logged and the build goes on to introspection
CacheReadSpec(x) ==
  /\ cache.b[x].pc = "readSpec"
  /\ cache' = [cache EXCEPT
       !.b[x] = IF cache.files.spec # 0 /\ cache.files.specOk
                THEN [@ EXCEPT !.pc = "idle", !.lib_doc = cache.files.spec,
                               !.accepted = <<cache.b[x].seen, cache.files.spec>>,
                               !.io = @ + 1, !.hit = TRUE]
                ELSE [@ EXCEPT !.pc = "introspect", !.io = @ + 1,
                               !.miss = IF cache.files.spec = 0 THEN "nospec"
                                        ELSE "badspec"]]
  /\ UNCHANGED <<managerVars, fpb>>

\* executor.submit(get_library_doc, name, args, ...).result(): the doc of
\* this build, made with the arguments of its Entry; with no meta the result
\* is returned without caching
CacheIntrospect(x) ==
  /\ cache.b[x].pc = "introspect"
  /\ cache' = [cache EXCEPT
       !.madeWith[cache.b[x].id] = x,
       !.b[x] = IF cache.b[x].meta = NoMeta
                THEN [@ EXCEPT !.pc = "idle", !.lib_doc = cache.b[x].id]
                ELSE [@ EXCEPT !.pc = "writeSpec", !.cand = cache.b[x].id]]
  /\ UNCHANGED <<managerVars, fpb>>

\* a write of spec.json whose failure does not stop the write of meta.json
CacheWriteSpec_MetaAnyway(x, ok) ==
  /\ cache.b[x].pc = "writeSpec"
  /\ cache' = IF ok
              THEN [cache EXCEPT !.files.spec = cache.b[x].cand,
                                 !.files.specOk = TRUE,
                                 !.b[x] = [@ EXCEPT !.pc = "writeMeta", !.io = @ + 1,
                                                    !.wrote = Append(@, "spec")]]
              ELSE [cache EXCEPT !.b[x] = [@ EXCEPT !.pc = "writeMeta", !.io = @ + 1,
                                                    !.failed = TRUE]]
  /\ UNCHANGED <<managerVars, fpb>>

\* spec_file.write_text(as_json(result)); a failure is logged and the
\* result returned without writing the meta file
CacheWriteSpec(x, ok) ==
  /\ cache.b[x].pc = "writeSpec"
  /\ cache' = IF ok
              THEN [cache EXCEPT !.files.spec = cache.b[x].cand,
                                 !.files.specOk = TRUE,
                                 !.b[x] = [@ EXCEPT !.pc = "writeMeta", !.io = @ + 1,
                                                    !.wrote = Append(@, "spec")]]
              ELSE [cache EXCEPT !.b[x] = [@ EXCEPT !.pc = "idle", !.io = @ + 1,
                                                    !.failed = TRUE,
                                                    !.lib_doc = cache.b[x].cand]]
  /\ UNCHANGED <<managerVars, fpb>>

\* meta_file.write_text(as_json(meta)); return result
CacheWriteMeta(x) ==
  /\ cache.b[x].pc = "writeMeta"
  /\ cache' = [cache EXCEPT
       !.files.meta = [m |-> cache.b[x].meta, v |-> MetaVersion,
                       by |-> cache.b[x].id, ok |-> TRUE],
       !.b[x] = [@ EXCEPT !.pc = "idle", !.io = @ + 1, !.lib_doc = cache.b[x].cand,
                          !.wrote = Append(@, "meta")]]
  /\ UNCHANGED <<managerVars, fpb>>

\* the library file is modified
CacheTouch ==
  /\ cache.mt < MaxCacheTouch
  /\ cache' = [cache EXCEPT !.mt = @ + 1]
  /\ UNCHANGED <<managerVars, fpb>>

\* a file event invalidates the Entry (under its lock): the doc is dropped
CacheInvalidate(x) ==
  /\ cache.b[x].pc = "idle" /\ cache.b[x].lib_doc # 0
  /\ cache' = [cache EXCEPT !.b[x] = [@ EXCEPT !.lib_doc = 0, !.id = 0, !.cand = 0,
                                               !.meta = NoMeta, !.seen = 0,
                                               !.wrote = <<>>, !.failed = FALSE,
                                               !.saw = NoFiles.meta,
                                               !.miss = "none", !.hit = FALSE]]
  /\ UNCHANGED <<managerVars, fpb>>

(* ------------------------ LibraryMetaData.filepath_base --------------- *)

\* directory names: the byte strings of DirLen letters a, b, c
DirBytes == {97, 98, 99}
Dirs == [1..DirLen -> DirBytes]

\* origins of by-path imports: /<dir>/<stem>.py or the directory /<dir>/<stem>/
PathOrigins == [dir : Dirs, stem : {"Lib", "Keywords"}, suffix : {".py", "/"}]

\* origins of two installations of one module
ModuleOrigins == [dir : {[i \in 1..DirLen |-> 97], [i \in 1..DirLen |-> 98]},
                  stem : {"mod"}, suffix : {".py"}]

\* LibraryMetaData(version, p.stem, None, import_name, None, True)
PathMetas ==
  {[by_path |-> TRUE, name |-> <<o.stem>>, member_name |-> "", origin |-> o] :
     o \in PathOrigins}

\* LibraryMetaData(version, module_spec.name, module_spec.member_name,
\* module_spec.origin, ..., False); the dotted name as its segments
ModuleMetas ==
  [by_path : {FALSE}, name : {<<"pkg">>, <<"pkg", "mod">>}, member_name : {"", "Cls"},
   origin : ModuleOrigins]

Metas == PathMetas \cup ModuleMetas

\* str(Path(origin).parent).encode("utf-8")
ParentBytes(o) == <<47>> \o o.dir

\* one byte of zlib.adler32: the two 16-bit sums modulo 65521
AdlerStep(ab, byte) ==
  LET a == (ab[1] + byte) % 65521 IN <<a, (ab[2] + a) % 65521>>

RECURSIVE AdlerFold(_, _)
AdlerFold(bytes, ab) ==
  IF bytes = <<>> THEN ab ELSE AdlerFold(Tail(bytes), AdlerStep(ab, Head(bytes)))

\* zlib.adler32(bytes) as its high and low 16-bit halves
Adler32(bytes) == LET ab == AdlerFold(bytes, <<1, 0>>) IN <<ab[2], ab[1]>>

\* four hexadecimal digits of a 16-bit value
Hex4(n) == [i \in 1..4 |-> (n \div (16 ^ (4 - i))) % 16]

\* f"{adler:08x}"
Hex8(hl) == Hex4(hl[1]) \o Hex4(hl[2])

\* name.replace(".", "/")
RECURSIVE SlashJoin(_)
SlashJoin(segs) ==
  IF Len(segs) <= 1 THEN segs
  ELSE <<Head(segs), "/">> \o SlashJoin(Tail(segs))

\* LibraryMetaData.filepath_base, as the sequence of its pieces
filepath_base(m) ==
  IF m.by_path
  THEN Hex8(Adler32(ParentBytes(m.origin))) \o <<"_", m.origin.stem>>
  ELSE SlashJoin(m.name) \o (IF m.member_name # "" THEN <<".", m.member_name>> ELSE <<>>)

IdleBase == [pc |-> "idle", m1 |-> <<>>, m2 |-> <<>>, f1 |-> <<>>, f2 |-> <<>>]

\* the property is read for two Metas
ComputeBase ==
  /\ fpb.pc = "input"
  /\ fpb' = [fpb EXCEPT !.pc = "done", !.f1 = filepath_base(fpb.m1),
                          !.f2 = filepath_base(fpb.m2)]
  /\ UNCHANGED <<managerVars, cache>>

(* ---------------- the workspace's file watcher entries ---------------- *)

\* the glob patterns the import Entries watch
WsGlobs == {WatchGlob(k, EntryKey(k)) : k \in Kinds}

WatcherIds == 1..MaxWatcherEntries

\* the listeners of the workspace's did_change_watched_files event: 0 is the
\* manager's did_change_watched_files, i > 0 is call_childrens of entry i
Listeners == 0..MaxWatcherEntries

\* Workspace.__init__: no FileWatcherEntry, no listener; the event either
\* keeps one registration per listener or counts them
IdleWs == [counting |-> FALSE, n |-> 0,
           fw |-> [i \in WatcherIds |-> [st |-> "none", watchers |-> "", parent |-> 0]],
           subs |-> [l \in Listeners |-> 0],
           child |-> [i \in WatcherIds |-> 0]]

\* event.add(callback): the registrations of the callback afterwards
EventAdd(counting, c) == IF counting THEN c + 1 ELSE 1

\* event.remove(callback); removing a callback that is not registered
\* changes nothing
EventRemove(counting, c) == IF c = 0 THEN 0 ELSE IF counting THEN c - 1 ELSE 0

\* callback in event, len(event) > 0
EventHas(c) == c > 0

\* add_file_watchers(self.parent.did_change_watched_files, [g])
AddFileWatchers(g) ==
  /\ ws.n < MaxWatcherEntries
  /\ LET id == ws.n + 1
         same == {e \in WatcherIds : ws.fw[e].st = "added" /\ ws.fw[e].watchers = g}
     IN IF same = {}
        THEN ws' = [ws EXCEPT !.n = id,
                              !.fw[id] = [st |-> "added", watchers |-> g, parent |-> 0],
                              !.subs[0] = EventAdd(ws.counting, @)]
        ELSE \E current_entry \in same :
               LET ch == IF EventHas(ws.subs[0]) THEN ws.child[current_entry]
                         ELSE EventAdd(ws.counting, ws.child[current_entry])
               IN ws' = [ws EXCEPT !.n = id,
                                   !.fw[id] = [st |-> "added", watchers |-> g,
                                               parent |-> current_entry],
                                   !.child[current_entry] = ch,
                                   !.subs[current_entry] =
                                      IF EventHas(ch) THEN EventAdd(ws.counting, @) ELSE @]
  /\ UNCHANGED <<coreVars, cache, fpb, fv, clv>>

\* remove_file_watcher_entry(entry) of entry i; an import Entry removes each
\* of its watcher entries once
RemoveFileWatcherEntry(i) ==
  /\ ws.fw[i].st = "added"
  /\ LET parent == ws.fw[i].parent
         w1 == [ws EXCEPT !.fw[i].st = "removed"]
     IN ws' = IF parent # 0
              THEN [w1 EXCEPT !.child[parent] = EventRemove(ws.counting, @),
                              !.subs[i] = IF ws.child[i] = 0
                                          THEN EventRemove(ws.counting, @) ELSE @]
              ELSE IF ws.child[i] = 0
              THEN [w1 EXCEPT !.subs[0] = EventRemove(ws.counting, @)]
              ELSE w1
  /\ UNCHANGED <<coreVars, cache, fpb, fv, clv>>

(* ------------------------------ find_variables ------------------------ *)

\* import names: a plain file name, a name with a variable of the importing
\* file, a name with a variable given on the command line
PlainName == "vars.py"
LocalName == "${DIR}/vars.py"
ClName    == "${CLV}/vars.py"
FvNames   == {PlainName, LocalName, ClName}

\* contains_variable(name, "$@&%")
contains_variable(name) == name # PlainName

\* the outcome of a resolution: the path found ("" when the resolution
\* raised), whether variables were substituted in the name, and whether the
\* command-line variables were handed to the substitution
NoResult == [path |-> "", substituted |-> FALSE, cl |-> FALSE]

\* robot's find_variables(name, working_dir, base_dir, command_line_variables,
\* variables): substitute, then search the file
SubstituteAndFind(name, cl) ==
  [path |-> IF name = ClName THEN (IF cl THEN "/c/vars.py" ELSE "") ELSE "/d/vars.py",
   substituted |-> TRUE, cl |-> cl]

\* find_file_ex(name, base_dir, "Variables"): the name is taken as it is
find_file_ex(name) ==
  [path |-> IF name = PlainName THEN "/d/vars.py" ELSE "", substituted |-> FALSE,
   cl |-> FALSE]

\* __find_variables(name, base_dir, variables, resolve_variables,
\* resolve_command_line_vars)
FindVariablesImpl(name, resolve_variables, resolve_command_line_vars) ==
  IF resolve_variables /\ contains_variable(name)
  THEN SubstituteAndFind(name, resolve_command_line_vars)
  ELSE find_file_ex(name)

\* the arguments find_variables hands to the memo: they are its key and the
\* positional arguments of __find_variables
MemoArgs(name, resolve_variables, resolve_command_line_vars) ==
  <<name, resolve_command_line_vars>>

FvKeys == FvNames \X BOOLEAN

\* no call made, nothing memoized
IdleFv == [n |-> 0,
           memo |-> [k \in FvKeys |-> [set |-> FALSE, value |-> NoResult,
                                       rv |-> FALSE, rc |-> FALSE]],
           last |-> [name |-> PlainName, rv |-> FALSE, rc |-> FALSE,
                     result |-> NoResult, hit |-> FALSE, mrv |-> FALSE, mrc |-> FALSE]]

\* find_variables(name, base_dir, variables, resolve_variables,
\* resolve_command_line_vars): the memoized value of the key, or the value
\* __find_variables computes from the key's arguments, the parameter
\* resolve_command_line_vars at its default
FindVariables(name, rv, rc) ==
  /\ fv.n < MaxFindCalls
  /\ LET key == MemoArgs(name, rv, rc)
         m   == fv.memo[key]
         val == IF m.set THEN m.value ELSE FindVariablesImpl(key[1], key[2], TRUE)
     IN fv' = [fv EXCEPT
                 !.n = @ + 1,
                 !.memo[key] = IF m.set THEN m
                               ELSE [set |-> TRUE, value |-> val, rv |-> rv, rc |-> rc],
                 !.last = [name |-> name, rv |-> rv, rc |-> rc, result |-> val,
                           hit |-> m.set, mrv |-> IF m.set THEN m.rv ELSE rv,
                           mrc |-> IF m.set THEN m.rc ELSE rc]]
  /\ UNCHANGED <<coreVars, cache, fpb, ws, clv>>

(* ------------- the command-line variables and their locks ------------ *)

\* two threads that import the variables file, and the dispatcher
ClvRequesters == {"t1", "t2"}
ClvThreads    == ClvRequesters \cup {Dispatcher}

\* _resolvable_command_line_variables_lock, _command_line_variables_lock,
\* _variables_lock, and the mutex of the Entry of the variables file
ClvLocks == {"resolvable", "command_line", "registry", "entry"}

\* None: a memo that has not been built
NoList == -1

IdleClvThread == [pc |-> "idle", hook |-> "none", target |-> "none", nested |-> FALSE,
                  start |-> 0, from |-> 0, ret |-> NoList]

\* the sentinel of the other variables Entry, and the manager itself, which
\* get_command_line_variables passes as the sentinel of its imports
OtherSentinel == "s1"
ManagerSentinel == "manager"

\* __init__: both memos None, the locks free, no Entry for the variables
\* file; another variables Entry is referenced by one sentinel; the
\* configuration names the variables file as a variable file, or names none
IdleClv == [variable_files |-> TRUE, config |-> 0, command_line_variables |-> NoList, resolvable |-> NoList,
            introspections |-> 0,
            lock |-> [l \in ClvLocks |-> Free],
            entry |-> [exists |-> FALSE, lib_doc |-> FALSE, resolve_cl |-> FALSE,
                       references |-> {}],
            other |-> [exists |-> TRUE, references |-> {OtherSentinel}],
            sentinel |-> "live",
            th |-> [t \in ClvThreads |-> IdleClvThread]]

\* RLock: thread t can take lock l
CanTake(t, l) == clv.lock[l] \in {Free, t}

\* thread t is at pc and not inside __remove_variables_entry
Runs(t, pc) == clv.th[t].pc = pc /\ clv.th[t].hook = "none"

\* get_libdoc_for_variables_import(name, args, base_dir) of the variables
\* file, up to resolve_args: get_resolvable_command_line_variables() takes
\* its lock and returns the memo, or goes on to build it
ClvRequest(t) ==
  /\ Runs(t, "idle")
  /\ CanTake(t, "resolvable")
  /\ clv' = IF clv.resolvable # NoList
            THEN [clv EXCEPT !.th[t].pc = "insert", !.th[t].start = clv.config,
                             !.th[t].ret = clv.resolvable]
            ELSE [clv EXCEPT !.th[t].pc = "list", !.th[t].start = clv.config,
                             !.lock["resolvable"] = t]
  /\ UNCHANGED <<coreVars, cache, fpb, ws, fv>>

\* where a thread goes on after it has read the command-line variables
AfterRead(x) == IF x.nested THEN "build" ELSE "insert"

\* get_command_line_variables(): take the lock; without a memo, read the
\* variables and the variable files of the configuration
GetCommandLineVariables(t) ==
  /\ Runs(t, "list")
  /\ CanTake(t, "command_line")
  /\ clv' = IF clv.command_line_variables # NoList
            THEN [clv EXCEPT !.th[t].pc = AfterRead(clv.th[t]), !.th[t].nested = FALSE,
                             !.th[t].ret = clv.command_line_variables,
                             !.resolvable = clv.command_line_variables,
                             !.lock["resolvable"] = Free]
            ELSE [clv EXCEPT !.th[t].pc = IF clv.variable_files THEN "file" ELSE "store",
                             !.th[t].from = clv.config,
                             !.lock["command_line"] = t]
  /\ UNCHANGED <<coreVars, cache, fpb, ws, fv>>

\* get_libdoc_for_variables_import(variable_file, args, folder, self,
\* resolve_variables=False, resolve_command_line_vars=False): insert the
\* Entry under the registry lock, add the manager to its references
ClvFileInsert(t) ==
  /\ Runs(t, "file")
  /\ CanTake(t, "registry")
  /\ clv' = [clv EXCEPT !.th[t].pc = "fileDoc",
                        !.entry = IF @.exists
                                  THEN [@ EXCEPT !.references = @ \cup {ManagerSentinel}]
                                  ELSE [exists |-> TRUE, lib_doc |-> FALSE,
                                        resolve_cl |-> FALSE,
                                        references |-> {ManagerSentinel}]]
  /\ UNCHANGED <<coreVars, cache, fpb, ws, fv>>

\* entry.get_libdoc() of the variable file: take the Entry's mutex; use the
\* doc it holds, or start the build
ClvFileDoc(t) ==
  /\ Runs(t, "fileDoc")
  /\ CanTake(t, "entry")
  /\ clv' = IF clv.entry.lib_doc
            THEN [clv EXCEPT !.th[t].pc = "store"]
            ELSE [clv EXCEPT !.th[t].pc = "fileBuild", !.lock["entry"] = t]
  /\ UNCHANGED <<coreVars, cache, fpb, ws, fv>>

\* _get_libdoc of the variable file under the Entry's mutex: introspect the
\* file, release
ClvFileBuild(t) ==
  /\ Runs(t, "fileBuild")
  /\ clv' = [clv EXCEPT !.th[t].pc = "store", !.entry.lib_doc = TRUE,
                        !.introspections = @ + 1,
                        !.lock["entry"] = IF clv.th[t].nested THEN t ELSE Free]
  /\ UNCHANGED <<coreVars, cache, fpb, ws, fv>>

\* self._command_line_variables = command_line_vars, and the memo of the
\* resolvable variables made from it; both locks are released
ClvStore(t) ==
  /\ Runs(t, "store")
  /\ clv' = [clv EXCEPT !.th[t].pc = AfterRead(clv.th[t]), !.th[t].nested = FALSE,
                        !.th[t].ret = clv.th[t].from,
                        !.command_line_variables = clv.th[t].from,
                        !.resolvable = clv.th[t].from,
                        !.lock["command_line"] = Free, !.lock["resolvable"] = Free]
  /\ UNCHANGED <<coreVars, cache, fpb, ws, fv>>

\* the import itself, without a sentinel: insert the Entry under the
\* registry lock
ClvInsert(t) ==
  /\ Runs(t, "insert")
  /\ CanTake(t, "registry")
  /\ clv' = [clv EXCEPT !.th[t].pc = "acquire",
                        !.entry = IF @.exists THEN @
                                  ELSE [exists |-> TRUE, lib_doc |-> FALSE,
                                        resolve_cl |-> TRUE, references |-> {}]]
  /\ UNCHANGED <<coreVars, cache, fpb, ws, fv>>

\* entry.get_libdoc(): take the Entry's mutex; return the doc it holds, or
\* start the build
ClvAcquire(t) ==
  /\ Runs(t, "acquire")
  /\ CanTake(t, "entry")
  /\ clv' = IF clv.entry.lib_doc
            THEN [clv EXCEPT !.th[t].pc = "done"]
            ELSE [clv EXCEPT !.th[t].pc = "build", !.lock["entry"] = t]
  /\ UNCHANGED <<coreVars, cache, fpb, ws, fv>>

\* _get_libdoc under the Entry's mutex: read the resolvable command-line
\* variables when the Entry was made to resolve them (building them first
\* when there is no memo), introspect, release
ClvBuild(t) ==
  /\ Runs(t, "build")
  /\ clv.entry.resolve_cl => CanTake(t, "resolvable")
  /\ clv' = IF clv.entry.resolve_cl /\ clv.resolvable = NoList
            THEN [clv EXCEPT !.th[t].pc = "list", !.th[t].nested = TRUE,
                             !.lock["resolvable"] = t]
            ELSE [clv EXCEPT !.th[t].pc = "done", !.entry.lib_doc = TRUE,
                             !.lock["entry"] = Free]
  /\ UNCHANGED <<coreVars, cache, fpb, ws, fv>>

\* did_change_watched_files, the scan of the variables: take the registry
\* lock
ClvScan ==
  /\ Runs(Dispatcher, "idle")
  /\ CanTake(Dispatcher, "registry")
  /\ clv' = [clv EXCEPT !.th[Dispatcher].pc = "check", !.lock["registry"] = Dispatcher]
  /\ UNCHANGED <<coreVars, cache, fpb, ws, fv>>

\* is_valid(), get_libdoc() and check_file_changed(changes) of the Entry,
\* each under the Entry's mutex; the file has changed or was deleted; the
\* registry lock is released after the scan, and a deleted file's Entry is
\* handed to __remove_variables_entry(key, entry, True)
ClvCheck(type) ==
  /\ Runs(Dispatcher, "check")
  /\ clv.entry.exists => CanTake(Dispatcher, "entry")
  /\ clv' = [clv EXCEPT !.th[Dispatcher].pc = "done",
                        !.th[Dispatcher].hook =
                           IF clv.entry.exists /\ clv.entry.lib_doc /\ type = "Deleted"
                              /\ OuterCheck(clv.entry.references, TRUE)
                           THEN "lock" ELSE "none",
                        !.th[Dispatcher].target = "file",
                        !.entry.lib_doc = FALSE,
                        !.lock["registry"] = Free]
  /\ UNCHANGED <<coreVars, cache, fpb, ws, fv>>

\* the sentinel of the other Entry is reclaimed while thread t runs: the
\* finalizer __remove_variables_entry(key, entry) is called in thread t and
\* returns at once unless it finds no reference
ClvFinalize(t) ==
  /\ clv.th[t].hook = "none"
  /\ clv.sentinel = "live"
  /\ clv' = [clv EXCEPT
               !.sentinel = "reclaimed",
               !.other.references = {},
               !.th[t].target = "other",
               !.th[t].hook =
                  IF OuterCheck(RefsSeenByHook(clv.other.references, OtherSentinel), FALSE)
                  THEN "lock" ELSE "none"]
  /\ UNCHANGED <<coreVars, cache, fpb, ws, fv>>

\* __remove_variables_entry in thread t: take the registry lock and test
\* the references again (without `or now`); pop the Entry when there are
\* none, and go on to invalidate it
ClvRemove(t) ==
  /\ clv.th[t].hook = "lock"
  /\ CanTake(t, "registry")
  /\ LET x == IF clv.th[t].target = "file" THEN clv.entry ELSE clv.other
         pop == x.exists /\ InnerCheck("Variables", x.references, FALSE)
     IN clv' = IF ~pop THEN [clv EXCEPT !.th[t].hook = "none"]
               ELSE IF clv.th[t].target = "other"
               THEN [clv EXCEPT !.th[t].hook = "none", !.other.exists = FALSE]
               ELSE [clv EXCEPT !.th[t].hook = "invalidate", !.entry.exists = FALSE,
                                !.lock["registry"] = t]
  /\ UNCHANGED <<coreVars, cache, fpb, ws, fv>>

\* entry.invalidate() of the popped Entry under its mutex; the registry
\* lock is released
ClvRemoveInvalidate(t) ==
  /\ clv.th[t].hook = "invalidate"
  /\ CanTake(t, "entry")
  /\ clv' = [clv EXCEPT !.th[t].hook = "none", !.entry.lib_doc = FALSE,
                        !.lock["registry"] = Free]
  /\ UNCHANGED <<coreVars, cache, fpb, ws, fv>>

\* the project configuration changes; the manager has no handler for it
ConfigChange ==
  /\ clv.config < MaxConfigChanges
  /\ clv' = [clv EXCEPT !.config = @ + 1]
  /\ UNCHANGED <<coreVars, cache, fpb, ws, fv>>

\* a thread that has finished imports again after the configuration changed
ClvAgain(t) ==
  /\ Runs(t, "done")
  /\ clv.th[t].start < clv.config
  /\ clv' = [clv EXCEPT !.th[t] = IdleClvThread]
  /\ UNCHANGED <<coreVars, cache, fpb, ws, fv>>

(* ------------------------------ the system ---------------------------- *)

InitGh == [ret           |-> [K \in KeySpace |-> 0],
           needBuild     |-> [K \in KeySpace |-> FALSE],
           pendingEvent  |-> [K \in KeySpace |-> FALSE],
           reclaimedLast |-> [e \in EntryIds |-> FALSE],
           startMatch    |-> {},
           invalidated   |-> {},
           evicted       |-> {},
           delRes        |-> {},
           delDoc        |-> [e \in EntryIds |-> 0],
           held          |-> [k \in Kinds |-> <<>>],
           cleared       |-> [k \in Kinds |-> FALSE]]

NoStored == [meta |-> NoMeta, spec |-> 0]

InitIdle ==
  /\ regLock = [k \in Kinds |-> Free]
  /\ rq = [t \in Requesters |-> IdleRq]
  /\ dsp = IdleDsp
  /\ live = Sentinels
  /\ mtime = [p \in Paths |-> 0]
  /\ present = Paths
  /\ nBuild = 0
  /\ nBatch = 0
  /\ events = <<>>
  /\ deb = IdleDeb
  /\ gh = InitGh

\* no document is open in the editor
InitCommon ==
  /\ InitIdle /\ opened = {} /\ cache = IdleCache /\ fpb = IdleBase
  /\ resfile = PlainResFile
  /\ ws = IdleWs
  /\ fv = IdleFv
  /\ clv = IdleClv

Rank(k) == CHOOSE i \in 1..Len(KindSeq) : KindSeq[i] = k

\* the doc an Entry built before the run starts holds
InitDoc(k) == MaxBuilds + Rank(k)

\* an Entry as get_libdoc leaves it: doc, one watcher; "failed" is the
\* resource Entry of a request that raised after _update: the document and
\* the watcher, no doc
ReadyEntry(k, c) ==
  [kind |-> k, key |-> EntryKey(k), lib_doc |-> IF c = "failed" THEN 0 ELSE InitDoc(k),
   document |-> (k = "Resource"),
   file_watchers |-> <<WatchGlob(k, EntryKey(k))>>,
   references |-> IF c \in {"ref", "failed"} THEN {"s1"} ELSE {},
   hooks |-> IF c \in {"ref", "failed"} THEN <<"s1">> ELSE <<>>,
   ignore_reference |-> (k = "Library" /\ c = "unref"),
   lock |-> Free]

Slot(c, k) == Cardinality({j \in Kinds : c[j] # "absent" /\ Rank(j) <= Rank(k)})

\* a manager that has served the imports of c: per kind no Entry, an Entry
\* no sentinel references, or an Entry referenced by sentinel s1; the docs
\* of libraries and variables are in the disk cache
Served(c) ==
  /\ reg = [k \in Kinds |-> IF c[k] = "absent" THEN <<>>
                            ELSE <<[key |-> EntryKey(k), e |-> Slot(c, k)]>>]
  /\ ent = [e \in EntryIds |->
              IF \E k \in Kinds : c[k] # "absent" /\ Slot(c, k) = e
              THEN LET k == CHOOSE k \in Kinds : c[k] # "absent" /\ Slot(c, k) = e
                   IN ReadyEntry(k, c[k])
              ELSE NoEntry]
  /\ nEnt = Cardinality({k \in Kinds : c[k] # "absent"})
  /\ disk = [k \in Kinds |->
               IF c[k] = "absent" \/ k = "Resource" THEN NoStored
               ELSE [meta |-> [origin |-> Source(k), mtime |-> 0],
                     spec |-> InitDoc(k)]]
  /\ files_cache = [k \in Kinds |-> IF c[k] = "absent" THEN NoPath ELSE Source(k)]

\* library imports only, fresh (__init__) or already served
Init ==
  /\ scn = "Library"
  /\ \E c \in [Kinds -> {"absent", "unref", "ref"}] :
       /\ \A k \in Kinds \ {scn} : c[k] = "absent"
       /\ Served(c)
  /\ InitCommon

\* imports of all three kinds, all fresh or all already served
InitBatch ==
  /\ scn = "All"
  /\ \E u \in {"absent", "unref", "ref"} : Served([k \in Kinds |-> u])
  /\ InitCommon

Next ==
  \/ \E t \in Requesters, k \in Kinds, s \in Sentinels \cup {NoSentinel} : Begin(t, k, s)
  \/ \E t \in Requesters : Lookup(t)
  \/ \E t \in Requesters : AddRef(t)
  \/ \E t \in Requesters : Acquire(t)
  \/ \E t \in Requesters : Meta(t)
  \/ \E t \in Requesters, saved \in BOOLEAN : IntroReturn(t, saved)
  \/ \E t \in Requesters : IntroRaise(t)
  \/ \E t \in Requesters, hung \in BOOLEAN : IntroTimeout(t, hung)
  \/ \E t \in Requesters : ShutdownDone(t)
  \/ \E t \in Requesters : Finish(t)
  \/ \E changes \in Batches : DispatchStart(changes)
  \/ ScanLock
  \/ ScanPeek
  \/ ScanCheck
  \/ RemovePop
  \/ RemoveInvalidate
  \/ Emit
  \/ \E s \in Sentinels : Reclaim(s)
  \/ \E p \in Paths : Touch(p)
  \/ \E p \in Paths : FsDelete(p)

\* two requester threads and the dispatcher on library imports
Spec == Init /\ [][Next]_vars

\* imports of all three kinds; fresh with the resource file open in the
\* editor or not, or served with no document open
InitEditor ==
  /\ scn = "All"
  /\ \/ opened \in {{}, {ResPath}} /\ Served([k \in Kinds |-> "absent"])
     \/ opened = {} /\ Served([k \in Kinds |-> "ref"])
  /\ InitIdle
  /\ cache = IdleCache
  /\ fpb = IdleBase
  /\ resfile = PlainResFile
  /\ ws = IdleWs
  /\ fv = IdleFv
  /\ clv = IdleClv

\* resource imports by two requester threads; the resource file has any of
\* the suffixes, under either robot version
InitExt ==
  /\ scn = "Resource"
  /\ Served([k \in Kinds |-> "absent"])
  /\ InitIdle
  /\ opened = {}
  /\ cache = IdleCache
  /\ fpb = IdleBase
  /\ resfile \in [suffix : Suffixes, v61 : BOOLEAN]
  /\ ws = IdleWs
  /\ fv = IdleFv
  /\ clv = IdleClv

NextExt ==
  \/ \E t \in Requesters, k \in Kinds, s \in Sentinels \cup {NoSentinel} : Begin(t, k, s)
  \/ \E t \in Requesters : Lookup(t)
  \/ \E t \in Requesters : AddRef(t)
  \/ \E t \in Requesters : Acquire(t)
  \/ \E changes \in Batches : DispatchStart(changes)
  \/ ScanLock
  \/ ScanPeek
  \/ ScanCheck
  \/ RemovePop
  \/ RemoveInvalidate
  \/ Emit
  \/ \E s \in Sentinels : Reclaim(s)

SpecExt == InitExt /\ [][NextExt]_vars

\* imports of all three kinds already served, the doc of the resource failed
InitScan ==
  /\ scn = "All"
  /\ Served([k \in Kinds |-> IF k = "Resource" THEN "failed" ELSE "ref"])
  /\ InitCommon

\* one requester thread and the dispatcher on Entries of all three kinds,
\* the resource Entry without a doc
SpecScan == InitScan /\ [][Next]_vars

NextClear == Next \/ ClearCache

\* library imports, with clear_cache among the operations
SpecClear == Init /\ [][NextClear]_vars

\* one requester thread and the dispatcher, with documents open in the editor
SpecEditor == InitEditor /\ [][Next]_vars

\* a fresh manager with an ignore configuration; only the two Entries of one
\* library and their artifact files move
InitCache ==
  /\ scn = "Cache"
  /\ Served([k \in Kinds |-> "absent"])
  /\ InitIdle
  /\ opened = {}
  /\ \E ps \in IgnoreConfigs, f \in StoredFiles :
        /\ ps # {} => f = NoFiles
        /\ cache = [IdleCache EXCEPT !.patterns = ps, !.files = f]
  /\ fpb = IdleBase
  /\ resfile = PlainResFile
  /\ ws = IdleWs
  /\ fv = IdleFv
  /\ clv = IdleClv

NextCache ==
  \/ \E x \in Builders : CacheGetLibdoc(x)
  \/ \E x \in Builders : CacheReadMeta(x)
  \/ \E x \in Builders : CacheReadSpec(x)
  \/ \E x \in Builders : CacheIntrospect(x)
  \/ \E x \in Builders, ok \in BOOLEAN : CacheWriteSpec(x, ok)
  \/ \E x \in Builders : CacheWriteMeta(x)
  \/ \E x \in Builders : CacheInvalidate(x)
  \/ CacheTouch

\* the builds of two Entries that share one pair of artifact files
SpecCache == InitCache /\ [][NextCache]_vars

\* two Metas whose filepath_base is read
InitBase ==
  /\ scn = "Base"
  /\ Served([k \in Kinds |-> "absent"])
  /\ InitIdle
  /\ opened = {}
  /\ cache = IdleCache
  /\ resfile = PlainResFile
  /\ ws = IdleWs
  /\ fv = IdleFv
  /\ clv = IdleClv
  /\ \E m1 \in Metas, m2 \in Metas : fpb = [IdleBase EXCEPT !.pc = "input", !.m1 = m1, !.m2 = m2]

NextBase == ComputeBase

SpecBase == InitBase /\ [][NextBase]_vars

\* a manager that has resolved no variables import
InitFv ==
  /\ scn = "FindVariables"
  /\ Served([k \in Kinds |-> "absent"])
  /\ InitIdle
  /\ opened = {}
  /\ cache = IdleCache
  /\ fpb = IdleBase
  /\ resfile = PlainResFile
  /\ ws = IdleWs
  /\ fv = IdleFv
  /\ clv = IdleClv

NextFv == \E name \in FvNames, rv \in BOOLEAN, rc \in BOOLEAN : FindVariables(name, rv, rc)

\* calls of find_variables with every name and every combination of flags
SpecFv == InitFv /\ [][NextFv]_vars

\* a manager that has not read the command-line variables
InitClv ==
  /\ scn = "CommandLine"
  /\ Served([k \in Kinds |-> "absent"])
  /\ InitIdle
  /\ opened = {}
  /\ cache = IdleCache
  /\ fpb = IdleBase
  /\ resfile = PlainResFile
  /\ ws = IdleWs
  /\ fv = IdleFv
  /\ \E f \in BOOLEAN : clv = [IdleClv EXCEPT !.variable_files = f]

NextClv ==
  \/ \E t \in ClvRequesters : ClvRequest(t)
  \/ \E t \in ClvRequesters : GetCommandLineVariables(t)
  \/ \E t \in ClvRequesters : ClvFileInsert(t)
  \/ \E t \in ClvRequesters : ClvFileDoc(t)
  \/ \E t \in ClvRequesters : ClvFileBuild(t)
  \/ \E t \in ClvRequesters : ClvStore(t)
  \/ \E t \in ClvRequesters : ClvInsert(t)
  \/ \E t \in ClvRequesters : ClvAcquire(t)
  \/ \E t \in ClvRequesters : ClvBuild(t)
  \/ \E t \in ClvRequesters : ClvAgain(t)
  \/ ClvScan
  \/ \E type \in FileChangeTypes : ClvCheck(type)
  \/ \E t \in ClvThreads : ClvFinalize(t)
  \/ \E t \in ClvThreads : ClvRemove(t)
  \/ \E t \in ClvThreads : ClvRemoveInvalidate(t)
  \/ ConfigChange

\* two imports of a variables file that is also a variable file of the
\* configuration, a file-event batch, a reclaimed sentinel and a change of
\* the configuration
SpecClv == InitClv /\ [][NextClv]_vars

\* a workspace without watcher entries, for either kind of event
InitWs ==
  /\ scn = "Workspace"
  /\ Served([k \in Kinds |-> "absent"])
  /\ InitIdle
  /\ opened = {}
  /\ cache = IdleCache
  /\ fpb = IdleBase
  /\ resfile = PlainResFile
  /\ \E c \in BOOLEAN : ws = [IdleWs EXCEPT !.counting = c]
  /\ fv = IdleFv
  /\ clv = IdleClv

NextWs ==
  \/ \E g \in WsGlobs : AddFileWatchers(g)
  \/ \E i \in WatcherIds : RemoveFileWatcherEntry(i)

\* the import Entries' calls of the workspace: every watcher entry is added
\* with the manager's did_change_watched_files and removed at most once
SpecWs == InitWs /\ [][NextWs]_vars

\* one requester thread and the dispatcher on Entries of all three kinds
SpecBatch == InitBatch /\ [][Next]_vars


\* a manager that serves an open resource document imported by others,
\* with a second resource document open in the editor
InitDebounce ==
  /\ scn = "Debounce"
  /\ \E u \in {"unref", "ref"} :
       /\ reg = [k \in Kinds |-> IF k = "Resource"
                                 THEN <<[key |-> EntryKey(k), e |-> 1]>> ELSE <<>>]
       /\ ent = [e \in EntryIds |->
                   IF e = 1 THEN [ReadyEntry("Resource", u) EXCEPT !.file_watchers = <<>>]
                   ELSE NoEntry]
  /\ nEnt = 1
  /\ disk = [k \in Kinds |-> NoStored]
  /\ regLock = [k \in Kinds |-> Free]
  /\ rq = [t \in Requesters |-> IdleRq]
  /\ dsp = IdleDsp
  /\ live = Sentinels
  /\ mtime = [p \in Paths |-> 0]
  /\ present = Paths
  /\ nBuild = 0
  /\ nBatch = 0
  /\ events = <<>>
  /\ opened = {BurstDoc, OtherDoc}
  /\ deb = IdleDeb
  /\ cache = IdleCache
  /\ fpb = IdleBase
  /\ files_cache = [k \in Kinds |-> IF k = "Resource" THEN Source(k) ELSE NoPath]
  /\ resfile = PlainResFile
  /\ ws = IdleWs
  /\ fv = IdleFv
  /\ clv = IdleClv
  /\ gh = InitGh

NextDebounce ==
  \/ \E t \in Requesters, k \in Kinds, s \in Sentinels \cup {NoSentinel} : Begin(t, k, s)
  \/ \E t \in Requesters : Lookup(t)
  \/ \E t \in Requesters : AddRef(t)
  \/ \E t \in Requesters : Acquire(t)
  \/ \E doc \in {BurstDoc, OtherDoc} : DidChange(doc)
  \/ \E i \in TimerIds : TimerExpire(i)
  \/ \E i \in TimerIds : ResourceDocumentsChanged(i)
  \/ Tick

\* one requester thread, the editor and the timer threads on an open
\* resource document
SpecDebounce == InitDebounce /\ [][NextDebounce]_vars

\* the same threads, with edits that leave their timer the time to expire
\* before the clock stops
NextDebounceFair ==
  \/ \E t \in Requesters, k \in Kinds, s \in Sentinels \cup {NoSentinel} : Begin(t, k, s)
  \/ \E t \in Requesters : Lookup(t)
  \/ \E t \in Requesters : AddRef(t)
  \/ \E t \in Requesters : Acquire(t)
  \/ \E doc \in {BurstDoc, OtherDoc} : deb.now + TimerInterval <= MaxTime /\ DidChange(doc)
  \/ \E i \in TimerIds : TimerExpire(i)
  \/ \E i \in TimerIds : ResourceDocumentsChanged(i)
  \/ Tick

\* threads that can run do run: a request that has started goes on, time
\* passes, a timer thread wakes at its deadline and calls its function
SpecDebounceFair ==
  /\ InitDebounce
  /\ [][NextDebounceFair]_vars
  /\ WF_vars(\E t \in Requesters : Lookup(t) \/ AddRef(t) \/ Acquire(t))
  /\ WF_vars(Tick)
  /\ \A i \in TimerIds : WF_vars(TimerExpire(i)) /\ WF_vars(ResourceDocumentsChanged(i))

(* ------------------------------ properties ---------------------------- *)

\* an introspection subprocess works for the request of thread t
InFlight(t) ==
  rq[t].pc = "wait" \/ (rq[t].pc = "shutdown" /\ rq[t].worker = "hung")

\* C1 (single-flight): for every key, at most one introspection is in
\* flight at any instant; the other requests for the key wait for it or are
\* answered from the Entry's doc.
C1_SingleFlight ==
  \A t \in Requesters : \A u \in Requesters \ {t} :
     InFlight(t) /\ InFlight(u) => <<rq[t].kind, rq[t].key>> # <<rq[u].kind, rq[u].key>>


KeyOf(t) == <<rq[t].kind, rq[t].key>>

\* C2 (cache coherence): requests for one key that no file event, file
\* modification or invalidation disturbs are answered with the same doc, and
\* a request that starts after such an answer never invokes introspection.
C2_CacheCoherence ==
  \A t \in Requesters :
     /\ rq[t].pc = "done" /\ rq[t].clean /\ rq[t].doc # 0 => rq[t].doc = gh.ret[KeyOf(t)]
     /\ InFlight(t) => rq[t].expect = 0

\* an undisturbed request that started after an answer returns that doc
C2_Witness ==
  \E t \in Requesters :
     /\ rq[t].pc = "done" /\ rq[t].clean /\ rq[t].expect # 0
     /\ rq[t].doc = rq[t].expect /\ rq[t].how = "memory"

C4_EntryGC ==
  \A e \in EntryIds :
     gh.reclaimedLast[e] /\ ~ent[e].ignore_reference =>
        ~InRegistry(e) /\ ent[e].file_watchers = <<>>

\* C7 (ordering): no request returns a rebuilt doc for a key while the
\* *_changed event of the batch that invalidated the key is still to be
\* emitted.
C7_EventBeforeRebuiltDoc == \A t \in Requesters : ~rq[t].early

\* C9 (timeout containment): once the deadline of an introspection has
\* passed, the caller can leave with the timeout error and release the Entry
\* lock, whether or not the worker ever terminates.
C9_TimeoutContained ==
  \A t \in Requesters : rq[t].pc = "shutdown" => ENABLED ShutdownDone(t)

\* C10 (failure semantics): a failed build answers its caller with the
\* error and no doc, the Entry of a failed build holds no doc and no
\* watcher, and it is never left locked by a build that has timed out and
\* cannot end, so that the next request for the key can build again.
C10_FailureSemantics ==
  /\ \A t \in Requesters :
        rq[t].pc = "done" /\ rq[t].err # "none" => rq[t].doc = 0
  /\ \A e \in EntryIds :
        ent[e].lock # Free =>
          /\ ent[e].lib_doc = 0 /\ ent[e].file_watchers = <<>>
          /\ rq[ent[e].lock].pc = "shutdown" => ShutdownReturns(rq[ent[e].lock].worker)


\* the *_changed events the current batch has emitted
BatchEvents ==
  {i \in 1..Len(events) : events[i].by = "batch" /\ events[i].batch = nBatch}

\* C6 (deleted resource): when a batch holds a Deleted event for the source
\* of a Ready resource Entry, the batch ends with the Entry out of the
\* registry, whatever references it, and with exactly one resources_changed
\* event, which carries the doc the Entry held.
C6_DeletedResourceEvicted ==
  dsp.pc = "end" =>
    \A e \in gh.delRes :
       /\ ~InRegistry(e)
       /\ Cardinality({i \in BatchEvents : events[i].kind = "Resource"}) = 1
       /\ \A i \in BatchEvents :
             events[i].kind = "Resource" =>
               \E j \in 1..Len(events[i].docs) : events[i].docs[j] = gh.delDoc[e]

\* C8 (batch completeness): when the first *_changed event of a batch is
\* emitted, every Entry of every kind that was Ready and matched the batch
\* has been invalidated.
C8_AllInvalidatedBeforeFirstEvent ==
  BatchEvents # {} => gh.startMatch \subseteq gh.invalidated

\* a batch that matched Ready Entries of all three kinds has emitted an event
C8_Witness ==
  /\ BatchEvents # {}
  /\ \A k \in Kinds : \E e \in gh.startMatch : ent[e].kind = k


\* the resources_changed events the debounce has emitted
TimerEvents == {i \in 1..Len(events) : events[i].by = "timer"}

\* no timer waits or runs, no document is pending
DebounceQuiet ==
  /\ deb.documents = {}
  /\ \A i \in TimerIds : deb.timers[i].st \in {"none", "done"}

\* C5 (debounce): the edits of one resource document that all arrive within
\* one interval cause exactly one resources_changed event: never more than
\* one, one once the timers have run, and it carries the doc of the
\* document's Entry.
C5_DebounceOneEvent ==
  /\ Cardinality(TimerEvents) <= 1
  /\ DebounceQuiet /\ deb.burstStart >= 0 => Cardinality(TimerEvents) = 1
  /\ \A i \in TimerEvents : Len(events[i].docs) = 1


\* thread t holds the Entry it read from the registry
HoldsEntry(t) == rq[t].pc \notin {"idle", "lookup", "done"} /\ rq[t].e # 0

\* C11 (one Entry per key): a registry never holds two Entries for one key,
\* and two requests for one key that no file event or invalidation
\* disturbs operate on the same Entry, whichever of them inserted it.
C11_OneEntryPerKey ==
  /\ \A k \in Kinds : \A i \in 1..Len(reg[k]) : \A j \in 1..Len(reg[k]) :
        reg[k][i].key = reg[k][j].key => i = j
  /\ \A t \in Requesters : \A u \in Requesters :
        /\ HoldsEntry(t) /\ HoldsEntry(u) /\ KeyOf(t) = KeyOf(u)
        /\ rq[t].clean /\ rq[u].clean
        => rq[t].e = rq[u].e

\* both threads requested a key absent from a fresh registry and hold the
\* one Entry that was inserted
C11_Witness ==
  /\ nBatch = 0
  /\ HoldsEntry("r1") /\ HoldsEntry("r2")
  /\ rq["r1"].clean /\ rq["r2"].clean
  /\ rq["r1"].e = rq["r2"].e
  /\ ent[rq["r1"].e].lib_doc = 0
  /\ \A e \in EntryIds : e # rq["r1"].e => ~Allocated(e)


\* is_valid(): the Entry holds its doc (resources: its document)
Ready(e) == Allocated(e) /\ IsValid(ent[e])

\* the glob of a subscription covers the path
Covers(glob, p) == glob = p \/ glob = Parent(p) \o "/**"

\* the Entry owns a file-watcher subscription that covers its source
Watched(e) ==
  \E i \in 1..Len(ent[e].file_watchers) : Covers(ent[e].file_watchers[i], ent[e].key.name)

Quiescent ==
  /\ \A t \in Requesters : rq[t].pc \in {"idle", "done"}
  /\ dsp.pc = IdleDsp.pc

\* C13 (unreferenced Entries are collected): once the manager is at rest,
\* with no request or batch in progress and no sentinel reclaimed so far,
\* no registry holds an Entry that has no references and is not pinned - in
\* particular none created by a request that passed no sentinel.
C13_UnreferencedCollected ==
  Quiescent /\ live = Sentinels =>
    \A e \in EntryIds :
       InRegistry(e) => ent[e].references # {} \/ ent[e].ignore_reference


\* C14 (no torn artifact pair): a build that accepts the on-disk pair read
\* a meta.json and a spec.json written by the same build.
C14_NoTornPair ==
  \A x \in Builders :
     cache.b[x].accepted # <<>> => cache.b[x].accepted[1] = cache.b[x].accepted[2]

\* C15 (ignored imports are not cached): when the import matches an ignore
\* pattern, the meta lookup returns (None, resolved name), no build reads or
\* writes an artifact file, and a finished build leaves the Entry holding
\* the doc its own introspection produced.
C15_IgnoredNotCached ==
  cache.patterns # {} =>
    /\ cache.files = NoFiles
    /\ \A x \in Builders :
         /\ cache.b[x].meta = NoMeta /\ cache.b[x].io = 0
         /\ cache.b[x].id # 0 => cache.b[x].source = LibPath
         /\ cache.b[x].id # 0 /\ cache.b[x].pc = "idle"
              => cache.b[x].lib_doc = cache.b[x].id /\ cache.b[x].lib_doc # 0

\* both Entries of an ignored library were built and hold their docs
C15_Witness ==
  /\ cache.patterns # {}
  /\ \A x \in Builders : cache.b[x].pc = "idle" /\ cache.b[x].lib_doc # 0

\* C19 (filepath_base is collision-free): two Metas with distinct
\* (by_path, origin) pairs have distinct filepath_base values.
C19_CollisionFree ==
  fpb.pc = "done" /\ <<fpb.m1.by_path, fpb.m1.origin>> # <<fpb.m2.by_path, fpb.m2.origin>>
    => fpb.f1 # fpb.f2


\* the on-disk cache root is gone
CacheCleared == \A k \in Kinds : disk[k] = NoStored

DispatcherNeeds(e) ==
  \/ dsp.pc \in {"peek", "check"} /\ dsp.items[dsp.i].e = e
  \/ dsp.pc = "rminv" /\ dsp.cur = e

\* C17 (registry lock never held across a subprocess wait): the dispatcher
\* never holds a registry lock while the Entry mutex it needs next is held
\* by a request whose introspection is in flight, so the registry lock is
\* free for other requests for as long as that build runs.
C17_RegistryLockNotHeldAcrossWait ==
  \A e \in EntryIds : \A t \in Requesters :
     DispatcherNeeds(e) /\ regLock[ent[e].kind] = Dispatcher
       => ~(ent[e].lock = t /\ InFlight(t))


\* C18 (events carry the previous docs): every *_changed event of the
\* current batch carries, in scan order, exactly the docs that the matched
\* Ready Entries of its kind held when the scan invalidated them.
C18_EventCarriesPreviousDocs ==
  \A i \in BatchEvents : events[i].docs = gh.held[events[i].kind]


\* C20 (Deleted evicts libraries and variables): when a batch has ended,
\* every library or variables Entry it matched with a Deleted event is out
\* of its registry, whether or not sentinels reference it.
C20_DeletedRemovesEntry ==
  dsp.pc = "end" =>
    \A k \in {"Library", "Variables"} : \A j \in 1..Len(dsp.acc[k]) :
       dsp.acc[k][j].type = "Deleted" =>
         \A e \in gh.invalidated :
            ent[e].kind = k /\ ent[e].key = dsp.acc[k][j].key => ~InRegistry(e)


\* C21 (one build for all waiters): a request that stood at the Entry
\* mutex while a build of its Entry failed starts no build of its own and
\* returns the error of that build.
C21_WaitersShareTheBuild ==
  \A u \in Requesters :
     rq[u].waited # "none" =>
       /\ rq[u].pc \notin {"meta", "wait", "shutdown", "finish"}
       /\ rq[u].pc = "done" => rq[u].err = rq[u].waited


\* the sentinels reclaimed by the step
Reclaimed == live \ live'

\* C22 (ABA-safe removal): an Entry leaves its registry only through a
\* removal called for that very Entry; the hooks of a reclaimed sentinel
\* leave every Entry that does not reference it, a newer Entry of the same
\* key included, untouched and registered; and when a removal ends the
\* removed Entry holds no doc, no document and no watcher subscription.
C22_RemovalIsABASafe ==
  [][/\ \A e \in EntryIds :
          InRegistry(e) /\ ~InRegistry(e)' =>
            \/ dsp'.pc = "rminv" /\ dsp'.cur = e
            \/ \E s \in Reclaimed : s \in ent[e].references
     /\ \A e \in EntryIds :
          Reclaimed # {} /\ ent[e].references \cap Reclaimed = {} =>
            ent'[e] = ent[e] /\ (InRegistry(e)' <=> InRegistry(e))
     /\ dsp.pc = "rminv" /\ dsp'.pc # "rminv" =>
          /\ ent'[dsp.cur].lib_doc = 0 /\ ~ent'[dsp.cur].document
          /\ ent'[dsp.cur].file_watchers = <<>>]_vars

\* a resource Entry was evicted by a Deleted event, a newer Entry was
\* registered for its key, and then the hook of the old Entry's sentinel ran
C22_Witness ==
  \E e1 \in EntryIds : \E e2 \in EntryIds :
     /\ e1 # e2 /\ Allocated(e1) /\ Allocated(e2)
     /\ ent[e1].kind = ent[e2].kind /\ ent[e1].key = ent[e2].key
     /\ e1 \in gh.evicted /\ ~InRegistry(e1) /\ gh.reclaimedLast[e1]
     /\ ent[e1].lib_doc = 0 /\ ent[e1].file_watchers = <<>>
     /\ InRegistry(e2)


\* C23 (invalidate is idempotent): applied to any Entry, invalidate hands
\* every subscription of the Entry to the workspace and leaves it with no
\* doc, no document and no subscription; applied again, or to an Entry that
\* was never built, it changes nothing and unregisters nothing.
C23_InvalidateIdempotent ==
  \A e \in EntryIds :
     Allocated(e) =>
       LET x == ent[e]
           y == Invalidate(x)
       IN /\ Unregistered(x) = x.file_watchers
          /\ y.lib_doc = 0 /\ ~y.document /\ y.file_watchers = <<>>
          /\ y = [x EXCEPT !.lib_doc = 0, !.document = FALSE, !.file_watchers = <<>>]
          /\ Invalidate(y) = y /\ Unregistered(y) = <<>>
          /\ x = NewEntry(x.kind, x.key, NoSentinel) => y = x
          /\ x = NewEntry(x.kind, x.key, "s1") => y = x

\* a batch invalidated a Ready Entry in its scan and a second time in its
\* removal, while another Entry stands Ready with its watcher
C23_Witness ==
  /\ dsp.pc = "end"
  /\ \E e \in gh.invalidated \cap gh.evicted :
        ent[e].lib_doc = 0 /\ ent[e].file_watchers = <<>>
  /\ \E e \in EntryIds : Ready(e) /\ ent[e].file_watchers # <<>>


\* the number of reclamation hooks registered on Entry x for sentinel s
HookCount(x, s) == Len(SelectSeq(x.hooks, LAMBDA h : h = s))

\* C24 (reference tracking): a request that passed a sentinel and returns a
\* doc leaves the sentinel in the references of its Entry, with exactly one
\* reclamation hook for it, when the Entry is not pinned; no Entry ever has
\* two hooks for one sentinel; a pinned Entry has no reference and no hook.
C24_ReferenceTracking ==
  [][/\ \A t \in Requesters :
          /\ rq[t].pc # "done" /\ rq'[t].pc = "done" /\ rq'[t].err = "none"
          /\ rq[t].e # 0 /\ rq[t].sent # NoSentinel /\ ~ent[rq[t].e].ignore_reference
          => /\ rq[t].sent \in ent'[rq[t].e].references
             /\ HookCount(ent'[rq[t].e], rq[t].sent) = 1
     /\ \A e \in EntryIds :
          /\ \A s \in Sentinels : HookCount(ent'[e], s) <= 1
          /\ ent'[e].ignore_reference =>
               ent'[e].references = {} /\ ent'[e].hooks = <<>>]_vars

\* a request repeated the sentinel that already referenced its Entry, and
\* returned a doc
C24_Witness ==
  /\ rq["r1"].pc = "done" /\ rq["r1"].err = "none" /\ rq["r1"].doc # 0
  /\ live = Sentinels
  /\ \E e \in EntryIds :
       /\ InRegistry(e) /\ ent[e].references = {"s1"} /\ ent[e].hooks = <<"s1">>
       /\ ent[e].lib_doc = rq["r1"].doc
       /\ ent[e].lib_doc = InitDoc("Library")


\* C25 (spec.json before meta.json, write errors swallowed): a build writes
\* nothing, spec.json only, or spec.json and then meta.json; a build whose
\* write of spec.json failed writes no meta.json and still ends with the
\* Entry holding the doc its introspection produced.
C25_SpecBeforeMeta ==
  \A x \in Builders :
     /\ cache.b[x].wrote \in {<<>>, <<"spec">>, <<"spec", "meta">>}
     /\ cache.b[x].failed =>
          /\ cache.b[x].wrote = <<>>
          /\ cache.b[x].pc = "idle"
          /\ cache.b[x].lib_doc = cache.b[x].id /\ cache.b[x].lib_doc # 0

\* one build failed to write spec.json and returned its doc, the other
\* wrote both files
C25_Witness ==
  /\ cache.b["args1"].failed /\ cache.b["args1"].lib_doc # 0
  /\ cache.b["args2"].wrote = <<"spec", "meta">> /\ cache.b["args2"].pc = "idle"

\* C26: a build takes its doc from the cache only when the stored meta
\* parses and equals the Meta just computed in every field, meta_version
\* included, and the stored spec parses; a missing, malformed or
\* mismatching file is a miss, and a build that missed returns the doc of
\* its own introspection
C26_HitOnlyOnEqualMeta ==
  \A x \in Builders :
     /\ cache.b[x].hit =>
          /\ cache.b[x].saw.ok /\ cache.b[x].saw.m = cache.b[x].meta
          /\ cache.b[x].saw.v = MetaVersion /\ cache.b[x].meta # NoMeta
          /\ cache.b[x].miss = "none"
          /\ cache.b[x].lib_doc # cache.b[x].id
     /\ cache.b[x].miss # "none" /\ cache.b[x].pc = "idle" =>
          /\ ~cache.b[x].hit
          /\ cache.b[x].lib_doc = cache.b[x].id /\ cache.b[x].lib_doc # 0

\* a build missed on a stored meta of an older program version and
\* returned its own doc
C26_Witness ==
  \E x \in Builders :
     /\ cache.b[x].miss = "mismatch" /\ cache.b[x].pc = "idle"
     /\ cache.b[x].saw.v # MetaVersion /\ cache.b[x].saw.m = cache.b[x].meta
     /\ cache.b[x].lib_doc = cache.b[x].id

\* C27: the fingerprinter never raises: for libraries and for variables an
\* error while the Meta is established, a failure of the path resolution
\* included, is swallowed, the result is (None, name) and the build goes on
\* without caching; so no request ends with an exception of the
\* fingerprinter
C27_FingerprinterNeverRaises ==
  \A t \in Requesters : rq[t].err # "UnboundLocalError"

\* a call of the removal function of kind k returns in this step: the
\* dispatcher's eviction, with or without a pop, or a finalizer of a
\* reclaimed sentinel
RemovalReturns(k) ==
  \/ /\ dsp.pc = "rminv" /\ dsp'.pc # "rminv" /\ StageKind(dsp.stage) = k
  \/ /\ dsp.pc = "remove" /\ dsp' # dsp /\ dsp'.pc \in {"remove", "emit"}
     /\ StageKind(dsp.stage) = k
  \/ \E s \in Reclaimed : k \in HookKinds(s)

\* requester t starts a request in this step
Begins(t) == rq[t].pc \in {"idle", "done"} /\ rq'[t].n = rq[t].n + 1

\* C28: every removal of a kind clears the path-resolution cache of that
\* kind and of no other kind; the first find of the kind after a removal
\* computes the resolution again, so it fails when the file is gone although
\* a path had been memoized
C28_RemovalClearsOwnCache ==
  [][/\ \A k \in Kinds :
          /\ RemovalReturns(k) => files_cache'[k] = NoPath
          /\ ~RemovalReturns(k) =>
               \/ files_cache'[k] = files_cache[k]
               \/ files_cache[k] = NoPath /\ files_cache'[k] = Resolve(k)
     /\ \A t \in Requesters :
          Begins(t) /\ gh.cleared[rq'[t].kind] =>
            /\ rq'[t].found = "recomputed"
            /\ rq'[t].err = "ResolveFailed" <=> Source(rq'[t].kind) \notin present]_vars

\* after an eviction a request finds the file gone, while the paths of the
\* other kinds are still memoized
C28_Witness ==
  \E t \in Requesters :
     /\ rq[t].found = "recomputed" /\ rq[t].err = "ResolveFailed"
     /\ files_cache[rq[t].kind] = NoPath
     /\ \A j \in Kinds \ {rq[t].kind} : files_cache[j] = Source(j)

\* C29: a resource Entry matches a batch, and is then invalidated and on
\* Deleted evicted, only if the batch holds an event whose URI has scheme
\* file and whose path is the resource's source, whatever state the Entry
\* is in
C29_ResourceMatchesOwnSourceOnly ==
  [][Len(dsp'.acc["Resource"]) > Len(dsp.acc["Resource"]) =>
       \E i \in 1..Len(dsp.changes) :
          /\ dsp.changes[i].scheme = "file"
          /\ dsp.changes[i].path = dsp'.acc["Resource"][Len(dsp'.acc["Resource"])].key.name]_vars

\* c and d are the same letter, in upper or lower case
SameLetter(c, d) ==
  \/ c = d
  \/ \E i \in 1..Len(UpperLetters) : {c, d} = {UpperLetters[i], LowerLetters[i]}

\* the suffix of the resource file is, case aside, one of the allowed ones
SuffixAllowed ==
  \E a \in RESOURCE_EXTENSIONS(resfile.v61) :
     /\ Len(a) = Len(resfile.suffix)
     /\ \A i \in 1..Len(a) : SameLetter(a[i], resfile.suffix[i])

\* C30: a resource import whose file has a suffix outside the allowed set,
\* compared without regard to case, fails on every request: each request
\* that reaches the Entry ends with ImportError and no doc, the Entry holds
\* no document and no watcher subscription; with an allowed suffix no
\* request ends with ImportError
C30_InvalidExtensionFailsEveryRequest ==
  /\ ~SuffixAllowed =>
       /\ \A e \in EntryIds :
             ent[e].kind = "Resource" =>
               ~ent[e].document /\ ent[e].file_watchers = <<>> /\ ent[e].lib_doc = 0
       /\ \A t \in Requesters :
             rq[t].pc = "done" =>
               rq[t].doc = 0 /\ rq[t].err \in {"ImportError", "ResolveFailed", "KeyError"}
  /\ SuffixAllowed => \A t \in Requesters : rq[t].err # "ImportError"

\* the file is a.PY: both requests failed with ImportError, the second on
\* the Entry the first had left in the registry
C30_Witness ==
  /\ resfile.suffix = <<".", "P", "Y">>
  /\ \A t \in Requesters : rq[t].pc = "done" /\ rq[t].err = "ImportError"
  /\ \E e \in EntryIds : InRegistry(e) /\ ~ent[e].document /\ ent[e].file_watchers = <<>>
  /\ nEnt = 1

\* C36: every Entry that holds a doc or a watcher subscription is the Entry
\* stored in the registry under its key: no request builds an Entry that
\* has been removed (the Entry the dispatcher has popped and is about to
\* invalidate inside the registry lock aside)
C36_BuiltEntryIsRegistered ==
  \A e \in EntryIds :
     /\ Allocated(e)
     /\ ent[e].lib_doc # 0 \/ ent[e].document \/ ent[e].file_watchers # <<>>
     /\ ~(dsp.pc = "rminv" /\ dsp.cur = e)
     => RegGet(ent[e].kind, ent[e].key) = e

\* C37: a registry lookup made outside the registry lock finds its key: no
\* request ends with a missing-key error, and the dispatcher's lookup of a
\* key it recorded as Deleted does not fail
C37_LookupFindsKey ==
  /\ \A t \in Requesters : rq[t].err # "KeyError"
  /\ dsp.err # "KeyError"

\* the Entry holds a doc (library, variables) or a document (resource)
HasDoc(x) == IF x.kind = "Resource" THEN x.document ELSE x.lib_doc # 0

C39_InvalidationAnnounced ==
  dsp.pc = "end" =>
    \A e \in gh.invalidated :
       \E i \in 1..Len(events) :
          /\ events[i].by = "batch" /\ events[i].batch = nBatch
          /\ events[i].kind = ent[e].kind

\* C33: the arguments are part of a doc's identity: the doc a build for
\* (source, args) returns was produced by an introspection with those
\* args, whether it comes from memory or from the artifact files (the doc
\* an earlier run left on disk aside: its arguments are not known)
C33_DocMadeWithOwnArgs ==
  \A x \in Builders :
     cache.b[x].pc = "idle" /\ cache.b[x].lib_doc \in 1..MaxCacheBuilds =>
       cache.madeWith[cache.b[x].lib_doc] = x


\* a timer function takes the pending set in this step
Takes == \E i \in TimerIds : deb.timers[i].st = "started" /\ deb'.timers[i].st = "done"

\* C32 (no change lost): every did_change notification of an open resource
\* document is followed by a timer function that takes the document, also
\* when the notification meets a timer that is firing or is cancelled; a
\* notified document stays pending until then, and the function that takes
\* it invalidates the document's Entry when that Entry holds a doc.
C32_NoChangeLost ==
  /\ \A doc \in {BurstDoc, OtherDoc} : (doc \in deb.unseen) ~> (doc \notin deb.unseen)
  /\ [](deb.unseen \subseteq deb.documents)
  /\ [][Takes =>
          \A e \in EntryIds :
             /\ InRegistry(e) /\ ent[e].kind = "Resource"
             /\ ent[e].lib_doc # 0 /\ ent[e].key.name \in deb.documents
             => ent'[e].lib_doc = 0 /\ ~ent'[e].document]_vars

\* an edit arrived while a timer function was about to run, every edit has
\* been taken since, and the Entry of the edited document was invalidated
C32_Witness ==
  /\ deb.raced
  /\ deb.nChanges = MaxChanges
  /\ deb.unseen = {}
  /\ DebounceQuiet
  /\ TimerEvents # {}
  /\ \A e \in EntryIds : InRegistry(e) => ent[e].lib_doc = 0


\* the workspace's event reaches the manager's callback: the callback is a
\* listener, or a listener's child callbacks hold it
Subscribed ==
  \/ EventHas(ws.subs[0])
  \/ \E c \in WatcherIds : EventHas(ws.subs[c]) /\ EventHas(ws.child[c])

\* C35 (callback stays subscribed): while a watcher entry that was added
\* with the manager's callback has not been removed, the workspace's
\* did_change_watched_files event reaches the callback.
C35_CallbackStaysSubscribed ==
  (\E i \in WatcherIds : ws.fw[i].st = "added") => Subscribed


\* C40 (flags of find_variables): the call substitutes variables in the
\* name exactly when resolve_variables is true and the name contains a
\* variable, the substitution is given the command-line variables exactly
\* when resolve_command_line_vars is true, and a memoized result is only
\* returned to a call with the flags of the call that computed it.
C40_FlagsRespected ==
  fv.n > 0 =>
    /\ fv.last.result.substituted = (fv.last.rv /\ contains_variable(fv.last.name))
    /\ fv.last.result.substituted => fv.last.result.cl = fv.last.rc
    /\ fv.last.hit => fv.last.mrv = fv.last.rv /\ fv.last.mrc = fv.last.rc


\* C31 (command-line variables): the variable files are introspected at
\* most once for each configuration, and a read returns a list that was
\* built from the configuration in force when the read began, or from a
\* later one.
C31_RebuiltAfterConfigChange ==
  /\ clv.introspections <= clv.config + 1
  /\ clv.command_line_variables # NoList /\ clv.variable_files => clv.introspections >= 1
  /\ \A t \in ClvRequesters :
        clv.th[t].ret # NoList => clv.th[t].ret >= clv.th[t].start

\* the lock thread t needs for its next step
Waits(t) ==
  IF clv.th[t].hook = "lock" THEN "registry"
  ELSE IF clv.th[t].hook = "invalidate" THEN "entry"
  ELSE CASE clv.th[t].pc = "list" -> "command_line"
         [] clv.th[t].pc \in {"file", "insert"} -> "registry"
         [] clv.th[t].pc \in {"fileDoc", "acquire"} -> "entry"
         [] clv.th[t].pc = "check" /\ clv.entry.exists -> "entry"
         [] clv.th[t].pc = "build" /\ clv.entry.resolve_cl -> "resolvable"
         [] OTHER -> "none"

\* thread t waits for a lock that another thread holds
Blocked(t) == Waits(t) # "none" /\ ~CanTake(t, Waits(t))

====
